---- MODULE Spec2Model ----
(***************************************************************************)
(* Historical token-price resolver of solana-swap-decode.                  *)
(*                                                                         *)
(*   Spec      GetTokenUSDPriceAtUnix: slot resolution, closest slot,      *)
(*             backoff walk over earlier slots, aggregation.               *)
(*   SpecSlot  GetPricesAtSlot: one loop iteration per candidate           *)
(*             transaction of one block.                                   *)
(*                                                                         *)
(* Numbers.  big.Rat values and the float64 values derived from them are   *)
(* modelled as exact reduced fractions <<n, d>> with d > 0.  Within the    *)
(* ranges of the code (uint64 amounts, uint8 decimals) the conversion      *)
(* Rat.Float64 never turns a non-zero fraction into zero, so the sign of   *)
(* every float64 of the code is the sign of its fraction.                  *)
(***************************************************************************)
EXTENDS Integers, Sequences, FiniteSets, TLC

(***************************************************************************)
(* Bounds of the model.                                                    *)
(***************************************************************************)
MaxSlot == 3
MaxBackoff == 3
MaxCands == 3

(***************************************************************************)
(* Exact fractions.                                                        *)
(***************************************************************************)
RECURSIVE GCD(_, _)
GCD(a, b) == IF b = 0 THEN a ELSE GCD(b, a % b)

Rat(n, d) == LET g == GCD(n, d) IN <<n \div g, d \div g>>

RZero == <<0, 1>>

RMul(x, y) ==
  LET a == Rat(x[1], y[2])
      b == Rat(y[1], x[2])
  IN  <<a[1] * b[1], a[2] * b[2]>>

RQuo(x, y) == RMul(x, <<y[2], y[1]>>)

RAdd(x, y) ==
  LET g == GCD(x[2], y[2])
      l == (x[2] \div g) * y[2]
  IN  Rat(x[1] * (l \div x[2]) + y[1] * (l \div y[2]), l)

RLe(x, y) ==
  LET g == GCD(x[2], y[2])
  IN  x[1] * (y[2] \div g) <= y[1] * (x[2] \div g)

RLt(x, y) == ~RLe(y, x)

RPos(x) == x[1] > 0

RECURSIVE Pow10(_)
Pow10(k) == IF k = 0 THEN 1 ELSE 10 * Pow10(k - 1)

(***************************************************************************)
(* Public keys are identified with their base58 text (the encoding is      *)
(* injective).  "Tgt" is the target mint, "tgt" a different key whose      *)
(* base58 text differs from the target's only in letter case, "so11"       *)
(* likewise for wrapped SOL.  "1111" is the text of the all-zero key.      *)
(***************************************************************************)
WrappedSOL == "So11"
ZeroKey == "1111"
TargetMint == "Tgt"
ValidKeys == {"Tgt", "tgt", "So11", "so11", "USDC", "USDT", "Xmnt", "1111"}

\* strings.EqualFold: equality under Unicode case folding
Fold(s) ==
  CASE s = "Tgt"  -> "tgt"
    [] s = "So11" -> "so11"
    [] s = "USDC" -> "usdc"
    [] s = "USDT" -> "usdt"
    [] s = "Xmnt" -> "xmnt"
    [] s = "Unknown" -> "unknown"
    [] OTHER -> s

EqualFold(a, b) == Fold(a) = Fold(b)

\* solana.PublicKeyFromBase58: succeeds exactly on the text of a 32-byte key
PublicKeyFromBase58OK(s) == s \in ValidKeys

\* mustStableMintsFromEnv: a missing or invalid value yields the zero key
StableMintFromEnv(envValue) ==
  IF PublicKeyFromBase58OK(envValue) THEN envValue ELSE ZeroKey

\* solana.MustPublicKeyFromBase58 panics where PublicKeyFromBase58 fails
MustPublicKeyPanics(s) == ~PublicKeyFromBase58OK(s)

(***************************************************************************)
(* Swap decoder, leg aggregation of Parser.ProcessSwapData.                *)
(* A leg is a decoded transfer: op 3 (TransferData) or 12 (TransferCheck), *)
(* its mint text ("Unknown" when processTransfer could not resolve it),    *)
(* amount, decimals, authority, source and destination.                    *)
(***************************************************************************)
Signer == "signer"

\* processTransfer: the mint of a plain transfer is the destination's, else
\* the source's, else the text "Unknown"
TransferMint(dstMint, srcMint) ==
  IF dstMint # "" THEN dstMint ELSE IF srcMint # "" THEN srcMint ELSE "Unknown"

LegKey(l) == <<l.op, l.auth, l.src, l.dst, l.mint, l.amt>>

RECURSIVE SumAmt(_, _)
SumAmt(S, pos) ==
  IF S = {} THEN 0
  ELSE LET k == CHOOSE x \in S : TRUE IN k[pos] + SumAmt(S \ {k}, pos)

\* firstSeenOrder: the mints in the order in which record() first saw them
RECURSIVE FirstSeenOrder(_)
FirstSeenOrder(legs) ==
  IF legs = <<>> THEN <<>>
  ELSE LET n == Len(legs)
           prev == FirstSeenOrder(SubSeq(legs, 1, n - 1))
       IN  IF \E i \in 1..Len(prev) : prev[i] = legs[n].mint
           THEN prev ELSE Append(prev, legs[n].mint)

\* totalsPerMint[m]: every distinct leg key counted once
TotalsPerMint(legs, m) ==
  SumAmt({LegKey(legs[i]) : i \in {j \in 1..Len(legs) : legs[j].mint = m}}, 6)

\* signerOutByMint[m]: distinct legs authorised by the signer
SignerOutByMint(legs, m) ==
  SumAmt({LegKey(legs[i]) : i \in {j \in 1..Len(legs) :
            legs[j].mint = m /\ legs[j].auth = Signer}}, 6)

\* decimalsPerMint[m]: decimals of the first leg seen with that mint
DecimalsPerMint(legs, m) ==
  legs[CHOOSE i \in 1..Len(legs) :
         legs[i].mint = m /\ \A j \in 1..(i - 1) : legs[j].mint # m].dec

\* final heuristic: amounts deduplicated by the key "<amount>-<mint>"
HeuristicTotal(legs, m) ==
  SumAmt({<<legs[i].amt, legs[i].mint>> : i \in {j \in 1..Len(legs) : legs[j].mint = m}}, 1)

\* first mint of firstSeenOrder other than wrapped SOL, "" when there is none
OtherMint(order) ==
  IF \E i \in 1..Len(order) : order[i] # WrappedSOL
  THEN order[CHOOSE i \in 1..Len(order) :
               order[i] # WrappedSOL /\ \A j \in 1..(i - 1) : order[j] = WrappedSOL]
  ELSE ""

SwapInfo(inM, inA, inD, outM, outA, outD) ==
  [st |-> "ok", inMint |-> inM, inAmt |-> inA, inDec |-> inD,
   outMint |-> outM, outAmt |-> outA, outDec |-> outD]

SwapErr == [st |-> "err"]
SwapPanic == [st |-> "panic"]

\* Parser.swapInOut
swapInOut(si) ==
  SwapInfo(si.outMint, si.outAmt, si.outDec, si.inMint, si.inAmt, si.inDec)

\* variant: a decrease of the signer's lamports also forces wrapped SOL to
\* the token-in side
adjustOrderBothWays(si, deltaOK, delta) ==
  IF ~(si.inMint = WrappedSOL \/ si.outMint = WrappedSOL) THEN si
  ELSE IF ~deltaOK \/ delta = 0 THEN si
  ELSE IF (delta > 0) = (si.inMint = WrappedSOL) THEN swapInOut(si)
  ELSE si

\* Parser.adjustOrderBySolDelta with lamportDeltaFor(signer) = (delta, deltaOK)
adjustOrderBySolDelta(si, deltaOK, delta) ==
  IF ~(si.inMint = WrappedSOL \/ si.outMint = WrappedSOL) THEN si
  ELSE IF ~deltaOK \/ delta <= 0 THEN si
  ELSE IF si.inMint = WrappedSOL THEN swapInOut(si)
  ELSE si

\* the branch of ProcessSwapData that aggregates legs (otherSwaps)
ProcessLegs(legs, deltaOK, delta) ==
  LET order == FirstSeenOrder(legs)
      other == OtherMint(order)
      hasSOL == \E i \in 1..Len(order) : order[i] = WrappedSOL
      first == order[1]
      last == order[Len(order)]
  IN  IF Len(order) < 2 THEN SwapErr
      ELSE IF hasSOL /\ deltaOK /\ delta > 0 /\ other # ""
      THEN IF MustPublicKeyPanics(other) THEN SwapPanic
           ELSE SwapInfo(other, TotalsPerMint(legs, other), DecimalsPerMint(legs, other),
                         WrappedSOL, TotalsPerMint(legs, WrappedSOL), 9)
      ELSE IF SignerOutByMint(legs, WrappedSOL) > 0 /\ other # ""
      THEN IF MustPublicKeyPanics(other) THEN SwapPanic
           ELSE adjustOrderBySolDelta(
                  SwapInfo(WrappedSOL, SignerOutByMint(legs, WrappedSOL), 9,
                           other, TotalsPerMint(legs, other), DecimalsPerMint(legs, other)),
                  deltaOK, delta)
      ELSE IF MustPublicKeyPanics(first) \/ MustPublicKeyPanics(last) THEN SwapPanic
           ELSE adjustOrderBySolDelta(
                  SwapInfo(first, HeuristicTotal(legs, first), DecimalsPerMint(legs, first),
                           last, HeuristicTotal(legs, last), DecimalsPerMint(legs, last)),
                  deltaOK, delta)

\* Parser.ProcessSwapData on the decoded data p of one transaction:
\*   "noSwapData"  ParseTransaction returned nothing
\*   "event"       an aggregator or native event fixed both sides
\*   "legs"        only transfers were collected
ProcessSwapData(p) ==
  CASE p.kind = "noSwapData" -> SwapErr
    [] p.kind = "event" ->
         adjustOrderBySolDelta(
           SwapInfo(p.inMint, p.inAmt, p.inDec, p.outMint, p.outAmt, p.outDec),
           p.deltaOK, p.delta)
    [] p.kind = "legs" ->
         IF p.legs = <<>> THEN SwapErr ELSE ProcessLegs(p.legs, p.deltaOK, p.delta)
    [] OTHER -> SwapErr

(***************************************************************************)
(* SOL/USD minute-close cache (solUSDCacher).  cache is the map m, a       *)
(* function from minute starts to prices.  ext is what the external        *)
(* market would answer if it were asked now: -1 for an error, otherwise    *)
(* the close price in whole dollars.                                       *)
(***************************************************************************)
MinuteOf(tUnix) == tUnix - (tUnix % 60)

\* variant: a successful lookup is not stored
getAtUnixNoStore(cache, tUnix, ext) ==
  LET minute == MinuteOf(tUnix)
  IN  IF minute \in DOMAIN cache
      THEN [ok |-> TRUE, px |-> cache[minute], cache |-> cache, fetched |-> FALSE]
      ELSE IF ext < 0
      THEN [ok |-> FALSE, px |-> 0, cache |-> cache, fetched |-> TRUE]
      ELSE [ok |-> TRUE, px |-> ext, cache |-> cache, fetched |-> TRUE]

\* solUSDCacher.getAtUnix: [ok, px, cache, fetched]
getAtUnix(cache, tUnix, ext) ==
  LET minute == MinuteOf(tUnix)
  IN  IF minute \in DOMAIN cache
      THEN [ok |-> TRUE, px |-> cache[minute], cache |-> cache, fetched |-> FALSE]
      ELSE IF ext < 0
      THEN [ok |-> FALSE, px |-> 0, cache |-> cache, fetched |-> TRUE]
      ELSE [ok |-> TRUE, px |-> ext,
            cache |-> [k \in DOMAIN cache \cup {minute} |->
                         IF k = minute THEN ext ELSE cache[k]],
            fetched |-> TRUE]

(***************************************************************************)
(* GetPricesAtSlot, body of the loop over the filtered transactions.       *)
(* A candidate c is one filtered transaction with the answers the RPC and  *)
(* the decoder give for it:                                                *)
(*   sig       FilterTxsByMint resolved a signature                        *)
(*   txOK      GetTransaction succeeded                                    *)
(*   parserOK  NewTransactionParser succeeded                              *)
(*   data      what ParseTransaction decoded                               *)
(*   bt        block time, unix seconds                                    *)
(*   ext       answer of the external market for the minute of bt          *)
(***************************************************************************)
\* look: "none" no lookup, "hit" answered by the cache, "ok" / "fail" outcome of
\* an external request
Skip(cache) == [cache |-> cache, pts |-> <<>>, panic |-> FALSE, look |-> "none"]

\* the target leg is token-in or token-out, compared with strings.EqualFold
TargetIsIn(sum, target) == EqualFold(sum.inMint, target)
TargetIsOut(sum, target) == EqualFold(sum.outMint, target)

IsSOLCounter(counterMint) == EqualFold(counterMint, WrappedSOL)

\* isUSDC / isUSDT: the text of the configured key is never empty
IsStableCounter(counterMint, usdc, usdt) ==
  \/ (usdc # "" /\ EqualFold(counterMint, usdc))
  \/ (usdt # "" /\ EqualFold(counterMint, usdt))

\* variant: only a negative quantity drops the candidate
QtyDroppedIfNegative(tokQty) == RLt(tokQty, RZero)

\* lines 224-228: a target quantity that is not positive drops the candidate
QtyDropped(tokQty) == ~RPos(tokQty)

\* variant: the minute close is looked up before the counter is classified,
\* and a failed lookup skips the candidate
PriceSwapLookupFirst(c, sum, cache, usdc, usdt) ==
  LET inIsT == TargetIsIn(sum, TargetMint)
      outIsT == TargetIsOut(sum, TargetMint)
      tAmt == IF inIsT THEN sum.inAmt ELSE sum.outAmt
      tDec == IF inIsT THEN sum.inDec ELSE sum.outDec
      cMint == IF inIsT THEN sum.outMint ELSE sum.inMint
      cAmt == IF inIsT THEN sum.outAmt ELSE sum.inAmt
      cDec == IF inIsT THEN sum.outDec ELSE sum.inDec
      isSOL == IsSOLCounter(cMint)
      isStable == IsStableCounter(cMint, usdc, usdt)
      tokQty == Rat(tAmt, Pow10(tDec))
      look == getAtUnix(cache, c.bt, c.ext)
      priceSOL == RQuo(Rat(cAmt, 1000000000), tokQty)
      lk == IF ~look.fetched THEN "hit" ELSE IF look.ok THEN "ok" ELSE "fail"
      pt(price) ==
        [cache |-> look.cache, panic |-> FALSE, look |-> lk,
         pts |-> << [sig |-> c.id, bt |-> c.bt, priceUSD |-> price, qty |-> tokQty,
                     baseMint |-> cMint, baseIsSOL |-> isSOL, baseIsStable |-> isStable,
                     baseAmt |-> cAmt, baseDec |-> cDec] >>]
  IN  IF ~inIsT /\ ~outIsT THEN Skip(cache)
      ELSE IF QtyDropped(tokQty) THEN Skip(cache)
      ELSE IF ~look.ok \/ look.px <= 0 THEN [Skip(cache) EXCEPT !.look = lk]
      ELSE IF isStable THEN pt(RQuo(Rat(cAmt, Pow10(cDec)), tokQty))
      ELSE IF isSOL THEN pt(RMul(priceSOL, <<look.px, 1>>))
      ELSE Skip(cache)

\* pricing of one decoded swap (lines 189-314 of GetPricesAtSlot)
PriceSwap(c, sum, cache, usdc, usdt) ==
  LET inIsT == TargetIsIn(sum, TargetMint)
      outIsT == TargetIsOut(sum, TargetMint)
      tAmt == IF inIsT THEN sum.inAmt ELSE sum.outAmt
      tDec == IF inIsT THEN sum.inDec ELSE sum.outDec
      cMint == IF inIsT THEN sum.outMint ELSE sum.inMint
      cAmt == IF inIsT THEN sum.outAmt ELSE sum.inAmt
      cDec == IF inIsT THEN sum.outDec ELSE sum.inDec
      isSOL == IsSOLCounter(cMint)
      isStable == IsStableCounter(cMint, usdc, usdt)
      tokQty == Rat(tAmt, Pow10(tDec))
      look == getAtUnix(cache, c.bt, c.ext)
      priceSOL == RQuo(Rat(cAmt, 1000000000), tokQty)
      lk == IF ~look.fetched THEN "hit" ELSE IF look.ok THEN "ok" ELSE "fail"
      pt(price, cch, l) ==
        [cache |-> cch, panic |-> FALSE, look |-> l,
         pts |-> << [sig |-> c.id, bt |-> c.bt, priceUSD |-> price, qty |-> tokQty,
                     baseMint |-> cMint, baseIsSOL |-> isSOL, baseIsStable |-> isStable,
                     baseAmt |-> cAmt, baseDec |-> cDec] >>]
  IN  IF ~inIsT /\ ~outIsT THEN Skip(cache)
      ELSE IF QtyDropped(tokQty) THEN Skip(cache)
      ELSE IF isStable THEN pt(RQuo(Rat(cAmt, Pow10(cDec)), tokQty), cache, "none")
      ELSE IF isSOL
      THEN IF ~look.ok \/ look.px <= 0
           THEN pt(RZero, look.cache, lk)
           ELSE pt(RMul(priceSOL, <<look.px, 1>>), look.cache, lk)
      ELSE Skip(cache)

\* lines 154-158 and what follows them, si being the answer of ProcessSwapData
PriceDecoded(c, si, cache, usdc, usdt) ==
  IF si.st = "panic"
  THEN [cache |-> cache, pts |-> <<>>, panic |-> TRUE, look |-> "none"]
  ELSE IF si.st = "err" THEN Skip(cache)
  ELSE PriceSwap(c, si, cache, usdc, usdt)

\* one iteration of the loop: [cache, pts, panic, look]
ProcessCandidate(c, cache, usdc, usdt) ==
  IF ~c.sig THEN Skip(cache)
  ELSE IF ~c.txOK THEN Skip(cache)
  ELSE IF ~c.parserOK THEN Skip(cache)
  ELSE PriceDecoded(c, ProcessSwapData(c.data), cache, usdc, usdt)

\* points := append(points, pp), r being the outcome of one iteration
AppendOutcome(prev, r) ==
  IF r.panic THEN [pts |-> <<>>, panic |-> TRUE, cache |-> r.cache]
  ELSE [pts |-> prev.pts \o r.pts, panic |-> FALSE, cache |-> r.cache]

\* the iteration for candidate c after the iterations that gave prev
LoopStep(prev, c, usdc, usdt) ==
  IF prev.panic THEN prev
  ELSE AppendOutcome(prev, ProcessCandidate(c, prev.cache, usdc, usdt))

\* the loop over cands[1..k]: [pts, panic, cache]
RECURSIVE PricesLoop(_, _, _, _)
PricesLoop(cands, k, usdc, usdt) ==
  IF k = 0 THEN [pts |-> <<>>, panic |-> FALSE, cache |-> <<>>]
  ELSE LoopStep(PricesLoop(cands, k - 1, usdc, usdt), cands[k], usdc, usdt)

\* the minute-close lookups of one call, one entry per filtered transaction:
\* the minute of its block time and "none" (no lookup), "hit" (answered by
\* the cache of the call), "ok" or "fail" (an external request)
LookOf(prev, c, usdc, usdt) ==
  [minute |-> MinuteOf(c.bt),
   look |-> IF prev.panic THEN "none"
            ELSE ProcessCandidate(c, prev.cache, usdc, usdt).look]

LooksAtSlot(blk, usdc, usdt) ==
  IF blk.st # "ok" THEN <<>>
  ELSE [k \in 1..Len(blk.cands) |->
          LookOf(PricesLoop(blk.cands, k - 1, usdc, usdt), blk.cands[k], usdc, usdt)]

\* GetPricesAtSlot on the answer blk of getBlock for the slot:
\*   blk.st = "err"     the RPC failed (FilterTxsByMint returns the error)
\*   blk.st = "absent"  no block (nil, nil)
\*   blk.st = "ok"      blk.cands are the filtered transactions
\* result: [st: "ok" | "err" | "panic", pts]
GetPricesAtSlot(blk, usdc, usdt) ==
  IF blk.st = "err" THEN [st |-> "err", pts |-> <<>>]
  ELSE IF blk.st = "absent" \/ blk.cands = <<>> THEN [st |-> "ok", pts |-> <<>>]
  ELSE LET r == PricesLoop(blk.cands, Len(blk.cands), usdc, usdt)
       IN  IF r.panic THEN [st |-> "panic", pts |-> <<>>]
           ELSE [st |-> "ok", pts |-> r.pts]

(***************************************************************************)
(* Robust aggregator.  ln is increasing, so |ln p - ln med| <= ln r is     *)
(* med / r <= p <= r * med.                                                *)
(***************************************************************************)
RECURSIVE Insert(_, _)
Insert(sorted, x) ==
  IF sorted = <<>> THEN <<x>>
  ELSE IF RLe(x, Head(sorted)) THEN <<x>> \o sorted
  ELSE <<Head(sorted)>> \o Insert(Tail(sorted), x)

\* sort.Float64s
RECURSIVE SortRats(_)
SortRats(q) == IF q = <<>> THEN <<>> ELSE Insert(SortRats(Tail(q)), Head(q))

Median(ps) ==
  LET m == Len(ps)
  IN  IF m % 2 = 1 THEN ps[(m \div 2) + 1]
      ELSE RMul(<<1, 2>>, RAdd(ps[m \div 2], ps[(m \div 2) + 1]))

\* the dust filter keeps the indices whose weight reaches minWeight
DustKept(weights, minWeight) ==
  {i \in 1..Len(weights) : RLe(minWeight, weights[i])}

\* variant: the fence has no lower side
InFenceUpperOnly(p, med, r) == RPos(p) /\ RLe(p, RMul(med, r))

InFence(p, med, r) == RPos(p) /\ RLe(RQuo(med, r), p) /\ RLe(p, RMul(med, r))

RECURSIVE SumOver(_, _)
SumOver(I, f) ==
  IF I = {} THEN RZero
  ELSE LET i == CHOOSE x \in I : TRUE IN RAdd(f[i], SumOver(I \ {i}, f))

RECURSIVE SeqOfSet(_, _)
SeqOfSet(I, f) ==
  IF I = {} THEN <<>>
  ELSE LET i == CHOOSE x \in I : \A y \in I : x <= y
       IN  <<f[i]>> \o SeqOfSet(I \ {i}, f)

VWAPFail == [v |-> RZero, kept |-> 0, sumW |-> RZero, ok |-> FALSE]

\* variant: the final sumW <= 0 test is missing (0/0 is not a positive price)
VWAPNoSumCheck(values, weights, r, minWeight) ==
  LET n == Len(values)
      F == DustKept(weights, minWeight)
      med == Median(SortRats(SeqOfSet(F, values)))
      K == {i \in F : InFence(values[i], med, r)}
      sumW == SumOver(K, weights)
      sumWP == SumOver(K, [i \in 1..n |-> RMul(weights[i], values[i])])
  IN  IF n = 0 \/ n # Len(weights) \/ RLe(r, <<1, 1>>) THEN VWAPFail
      ELSE IF F = {} THEN VWAPFail
      ELSE IF ~RPos(med) THEN VWAPFail
      ELSE [v |-> IF RPos(sumW) THEN RQuo(sumWP, sumW) ELSE RZero,
            kept |-> Cardinality(K), sumW |-> sumW, ok |-> TRUE]

VWAPWithLogFence(values, weights, r, minWeight) ==
  LET n == Len(values)
      F == DustKept(weights, minWeight)
      med == Median(SortRats(SeqOfSet(F, values)))
      K == {i \in F : InFence(values[i], med, r)}
      sumW == SumOver(K, weights)
      sumWP == SumOver(K, [i \in 1..n |-> RMul(weights[i], values[i])])
  IN  IF n = 0 \/ n # Len(weights) \/ RLe(r, <<1, 1>>) THEN VWAPFail
      ELSE IF F = {} THEN VWAPFail
      ELSE IF ~RPos(med) THEN VWAPFail
      ELSE IF ~RPos(sumW) THEN VWAPFail
      ELSE [v |-> RQuo(sumWP, sumW), kept |-> Cardinality(K), sumW |-> sumW, ok |-> TRUE]

(***************************************************************************)
(* GetTokenUSDPriceAtUnix: addPoints and the parameter defaults.           *)
(***************************************************************************)
\* weight of one point, RZero when the point has no SOL or stable base
PointWeight(p) ==
  IF p.baseIsStable THEN Rat(p.baseAmt, Pow10(p.baseDec))
  ELSE IF p.baseIsSOL THEN RMul(p.priceUSD, p.qty)
  ELSE RZero

\* a point is appended to values / weights
Eligible(p) == RPos(p.priceUSD) /\ RPos(p.qty) /\ RPos(PointWeight(p))

RECURSIVE addPoints(_, _)
addPoints(ps, vw) ==
  IF ps = <<>> THEN vw
  ELSE LET p == Head(ps)
       IN  addPoints(Tail(ps),
             IF Eligible(p)
             THEN [values |-> Append(vw.values, p.priceUSD),
                   weights |-> Append(vw.weights, PointWeight(p))]
             ELSE vw)

DefaultFenceR == <<3, 2>>
DefaultMinWUSD == <<1, 1000000>>

\* fenceR <= 1 falls back to 1.5, minWUSD <= 0 to 1e-6
EffectiveFenceR(r) == IF RLe(r, <<1, 1>>) THEN DefaultFenceR ELSE r
EffectiveMinWUSD(w) == IF ~RPos(w) THEN DefaultMinWUSD ELSE w

(***************************************************************************)
(* Inputs: candidate transactions and blocks.                              *)
(***************************************************************************)
NoDelta == [deltaOK |-> FALSE, delta |-> 0]

Event(inM, inA, inD, outM, outA, outD) ==
  [kind |-> "event", inMint |-> inM, inAmt |-> inA, inDec |-> inD,
   outMint |-> outM, outAmt |-> outA, outDec |-> outD, deltaOK |-> FALSE, delta |-> 0]

\* a plain transfer (op 3) between token accounts src and dst whose mints in
\* splTokenInfoMap are srcMint and dstMint ("" when the account is not known)
Transfer(dstMint, srcMint, amt, dec, auth, src, dst) ==
  [op |-> 3, mint |-> TransferMint(dstMint, srcMint), amt |-> amt, dec |-> dec,
   auth |-> auth, src |-> src, dst |-> dst]

Legs(legs, deltaOK, delta) ==
  [kind |-> "legs", legs |-> legs, deltaOK |-> deltaOK, delta |-> delta]

NoSwapData == [kind |-> "noSwapData"]

Cand(id, sig, txOK, parserOK, bt, ext, data) ==
  [id |-> id, sig |-> sig, txOK |-> txOK, parserOK |-> parserOK,
   bt |-> bt, ext |-> ext, data |-> data]

OneSOL == Pow10(9)
HalfSOL == 5 * Pow10(8)
OneUSD == Pow10(6)

StableSale == Event("Tgt", 10, 1, "USDC", OneUSD, 6)

SolSale1 == Event("Tgt", 10, 1, "So11", HalfSOL, 9)   \* sell 1 target for 0.5 SOL

\* further decoded swaps whose counter leg is wrapped SOL (or its case twin)
SolSwapData ==
  { Event("So11", OneSOL, 9, "Tgt", 10, 1),        \* buy 1 target for 1 SOL
    Event("Tgt", 10, 1, "So11", 0, 9),             \* zero lamports
    Event("Tgt", 10, 1, "so11", HalfSOL, 9),       \* case twin of wrapped SOL
    Legs(<<Transfer("", "So11", HalfSOL, 9, Signer, "a", "b"),
           Transfer("Tgt", "Tgt", 10, 1, "pool", "c", "d")>>, TRUE, 1) }

\* every other decoded transaction (target 1.0 = 10 raw units, 1 decimal)
OtherSwapData ==
  { StableSale,                                    \* sell 1 target for 1 USDC
    Event("USDT", 9 * OneUSD, 6, "Tgt", 10, 1),    \* buy 1 target for 9 USDT
    Event("Tgt", 0, 1, "USDC", OneUSD, 6),         \* zero target amount
    Event("Tgt", 10, 1, "USDC", 0, 6),             \* zero counter amount
    Event("Tgt", 10, 1, "Xmnt", 7, 0),             \* counter is another mint
    Event("Xmnt", 7, 0, "USDC", OneUSD, 6),        \* target only a routing hop
    Event("tgt", 10, 1, "USDC", OneUSD, 6),        \* case twin of the target
    Event("Tgt", 10, 1, "1111", OneUSD, 6),        \* counter is the zero key
    Legs(<<Transfer("Tgt", "", 10, 1, Signer, "a", "b"),
           Transfer("USDC", "USDC", OneUSD, 6, "pool", "c", "d")>>, FALSE, 0),
    Legs(<<Transfer("Tgt", "", 10, 1, Signer, "a", "b"),
           Transfer("", "", 5, 0, "pool", "c", "d")>>, FALSE, 0),
    Legs(<<Transfer("Tgt", "Tgt", 10, 1, Signer, "a", "b")>>, FALSE, 0),
    NoSwapData }

BlockTimes == {30, 90}
ExtAnswers == {-1, 2}

\* the candidates a block may hold at position id
Candidates(id) ==
  { Cand(id, TRUE, TRUE, TRUE, bt, ext, SolSale1) : bt \in BlockTimes, ext \in ExtAnswers }
  \cup { Cand(id, TRUE, TRUE, TRUE, 30, 2, d) : d \in SolSwapData }
  \cup { Cand(id, TRUE, TRUE, TRUE, 30, -1, d) : d \in OtherSwapData }
  \cup { Cand(id, FALSE, TRUE, TRUE, 30, -1, StableSale),
         Cand(id, TRUE, FALSE, TRUE, 30, -1, StableSale),
         Cand(id, TRUE, TRUE, FALSE, 30, -1, StableSale) }

ErrBlock == [st |-> "err", cands |-> <<>>]
AbsentBlock == [st |-> "absent", cands |-> <<>>]
OkBlock(cs) == [st |-> "ok", cands |-> cs]

\* environment: SOLANA_USDC_CONTRACT_ADDRESS, SOLANA_USDT_CONTRACT_ADDRESS
StableEnvs == {<<"USDC", "USDT">>, <<"", "">>}

(***************************************************************************)
(* State.                                                                  *)
(*   GetTokenUSDPriceAtUnix: pc, ctxDone, env, best, curr, scanned,        *)
(*     backoffSlots, fenceR, minWUSD, values, weights, fetches, result     *)
(*   GetPricesAtSlot: gpc, gblk, gn, gidx, cache, points, gret, failed     *)
(*   SlotAtClosest: sc (its parameters and locals), probed, sres           *)
(*   one call of VWAPWithLogFence (agg), of httpClient.getJSON (http), of  *)
(*   FilterTxsByMint (filt) and of ParseTransaction (parse): the arguments *)
(*   and what the call returned                                            *)
(* fetches is the list of the GetPricesAtSlot calls made so far, one       *)
(* record per call; gn is the number of filtered transactions, gblk.cands  *)
(* the answers given so far for them; failed is the set of minutes for     *)
(* which an external minute-close request of this call has failed;         *)
(* probed maps every slot whose block time was asked of the RPC to the     *)
(* answer (-1: none), sres is what SlotAtClosest returned.                 *)
(***************************************************************************)
VARIABLES pc, ctxDone, env, best, curr, scanned, backoffSlots, fenceR, minWUSD,
          values, weights, fetches, result,
          gpc, gblk, gn, gidx, cache, points, gret, failed,
          sc, probed, sres, agg, http, filt, parse, hold, swap, jup, prep, floor, conc

ovars == <<pc, ctxDone, best, curr, scanned, backoffSlots, fenceR, minWUSD,
           values, weights, fetches, result>>
gvars == <<gpc, gblk, gn, gidx, cache, points, gret, failed>>
svars == <<sc, probed, sres>>
pvars == <<agg, http, filt, parse>>
yvars == <<hold, swap, jup, prep, floor, conc>>
holdFrame == <<ovars, env, gvars, svars, pvars, swap, jup, prep, floor, conc>>
swapFrame == <<ovars, env, gvars, svars, pvars, hold, jup, prep, floor, conc>>
jupFrame == <<ovars, env, gvars, svars, pvars, hold, swap, prep, floor, conc>>
prepFrame == <<ovars, env, gvars, svars, pvars, hold, swap, jup, floor, conc>>
floorFrame == <<ovars, env, gvars, svars, pvars, hold, swap, jup, prep, conc>>
concFrame == <<ovars, env, gvars, svars, pvars, hold, swap, jup, prep, floor>>
xvars == <<svars, pvars, yvars>>
vars == <<ovars, env, gvars, xvars>>

usdcMint == StableMintFromEnv(env[1])
usdtMint == StableMintFromEnv(env[2])

NoResult == [err |-> "none", v |-> RZero, kept |-> 0, sumW |-> RZero, ok |-> FALSE]
ErrResult(e) == [err |-> e, v |-> RZero, kept |-> 0, sumW |-> RZero, ok |-> FALSE]

OrchIdle ==
  /\ pc = "idle" /\ ctxDone = FALSE /\ best = 0 /\ curr = 0 /\ scanned = 0
  /\ backoffSlots = 0 /\ fenceR = DefaultFenceR /\ minWUSD = DefaultMinWUSD
  /\ values = <<>> /\ weights = <<>> /\ fetches = <<>> /\ result = NoResult

SlotIdle ==
  /\ gpc = "idle" /\ gblk = AbsentBlock /\ gn = 0 /\ gidx = 0 /\ cache = <<>>
  /\ points = <<>> /\ gret = [st |-> "none", pts |-> <<>>] /\ failed = {}

\* SlotAtClosest not called: its locals hold their zero values
IdleSearch ==
  [pc |-> "idle", nowSlot |-> 0, btNow |-> 0, target |-> 0, maxProbes |-> 0,
   budget |-> 0, calls |-> 0, rpcs |-> 0, guess |-> 0, tGuess |-> 0, okGuess |-> FALSE,
   span |-> 0, lo |-> 0, hi |-> 0, tLo |-> 0, tHi |-> 0, tLoOK |-> FALSE,
   tHiOK |-> FALSE, best |-> 0, tries |-> 0, iter |-> 0, nidx |-> 0,
   nside |-> "minus", ret |-> "pre"]

NoSlotResult == [st |-> "none", best |-> 0, tie |-> -1]

SearchIdle == sc = IdleSearch /\ probed = <<>> /\ sres = NoSlotResult

\* VWAPWithLogFence not called
AggIdle ==
  [pc |-> "idle", values |-> <<>>, weights |-> <<>>, r |-> DefaultFenceR,
   minWeight |-> DefaultMinWUSD, out |-> VWAPFail]

\* httpClient.getJSON not called; outcomes is the list of the attempts made
HttpIdle == [pc |-> "idle", i |-> 0, outcomes |-> <<>>, lastErr |-> "nil", ret |-> "none"]

\* FilterTxsByMint not called; tx is the transaction of the last iteration
\* and ft what the iteration made of it
NoRow == [mint |-> "", amt |-> <<>>]

NoBlockTx == [meta |-> FALSE, pre |-> <<>>, post |-> <<>>, order |-> <<>>]

NotKept == [kept |-> FALSE, perAcct |-> <<>>, total |-> 0, touches |-> <<>>]

FiltIdle ==
  [pc |-> "idle", ntx |-> 0, done |-> 0, tx |-> NoBlockTx, ft |-> NotKept,
   nout |-> 0, ret |-> "none"]

\* ParseTransaction not called
NoTx == [outer |-> <<>>, inner |-> <<>>]

NoParse == [op |-> "LiquidityNone", ran |-> <<>>, swaps |-> 0, ret |-> "none"]

ParseIdle == [pc |-> "idle", tx |-> NoTx, out |-> NoParse]

\* CountHoldersForMint not called
HoldIdle ==
  [pc |-> "idle", prog |-> "none", backoff |-> 0, elapsed |-> 0, spent |-> 0,
   attempts |-> 0, retries |-> 0, lastErr |-> "nil", slept |-> 0, ret |-> "none"]

\* ProcessSwapData not called
NoSwapTx == [meta |-> FALSE, keys |-> <<>>, pre |-> <<>>, post |-> <<>>]

SwapIdle == [pc |-> "idle", data |-> NoSwapData, tx |-> NoSwapTx, out |-> SwapErr]

\* parseJupiterEvents not called
JupIdle ==
  [pc |-> "idle", events |-> <<>>, order |-> <<>>,
   out |-> [st |-> "none", inMint |-> 0, inAmt |-> 0, outMint |-> 0, outAmt |-> 0]]

\* the parser not built
PrepIdle ==
  [pc |-> "idle", tx |-> [pre |-> <<>>, post |-> <<>>, outer |-> <<>>, inner |-> <<>>],
   info |-> <<>>, decs |-> {}, legs |-> <<>>]

\* minuteFloor not called
FloorIdle == [pc |-> "idle", ms |-> 0, out |-> 0, again |-> 0]

\* no caller of the minute-close cache
ConcIdle == [pc |-> <<>>, mu |-> 0, minute |-> <<>>, m |-> <<>>, px |-> <<>>, ret |-> <<>>, fetches |-> <<>>]

MoreIdle == hold = HoldIdle /\ swap = SwapIdle /\ jup = JupIdle /\ prep = PrepIdle /\ floor = FloorIdle /\ conc = ConcIdle

\* every call but one of those below is idle
BaseIdle ==
  /\ OrchIdle /\ SlotIdle /\ SearchIdle
  /\ agg = AggIdle /\ http = HttpIdle /\ filt = FiltIdle /\ parse = ParseIdle





holdAlone == BaseIdle /\ swap = SwapIdle /\ jup = JupIdle /\ prep = PrepIdle /\ floor = FloorIdle /\ conc = ConcIdle
swapAlone == BaseIdle /\ hold = HoldIdle /\ jup = JupIdle /\ prep = PrepIdle /\ floor = FloorIdle /\ conc = ConcIdle
jupAlone == BaseIdle /\ hold = HoldIdle /\ swap = SwapIdle /\ prep = PrepIdle /\ floor = FloorIdle /\ conc = ConcIdle
prepAlone == BaseIdle /\ hold = HoldIdle /\ swap = SwapIdle /\ jup = JupIdle /\ floor = FloorIdle /\ conc = ConcIdle
floorAlone == BaseIdle /\ hold = HoldIdle /\ swap = SwapIdle /\ jup = JupIdle /\ prep = PrepIdle /\ conc = ConcIdle
concAlone == BaseIdle /\ hold = HoldIdle /\ swap = SwapIdle /\ jup = JupIdle /\ prep = PrepIdle /\ floor = FloorIdle

ExtraIdle ==
  /\ SearchIdle /\ agg = AggIdle /\ http = HttpIdle /\ filt = FiltIdle /\ parse = ParseIdle
  /\ MoreIdle

(***************************************************************************)
(* GetTokenUSDPriceAtUnix.                                                 *)
(***************************************************************************)
\* answers of getBlock and the decoder that the walk may meet at a slot
SolSale(ext) == Cand(1, TRUE, TRUE, TRUE, 30, ext, SolSale1)
WalkBlocks ==
  { ErrBlock, AbsentBlock, OkBlock(<<>>),
    OkBlock(<<Cand(1, TRUE, TRUE, TRUE, 30, -1, StableSale)>>),
    OkBlock(<<Cand(1, TRUE, TRUE, TRUE, 30, -1, StableSale),
              Cand(2, TRUE, TRUE, TRUE, 30, -1, Event("USDT", 9 * OneUSD, 6, "Tgt", 10, 1))>>),
    OkBlock(<<SolSale(2)>>),
    OkBlock(<<SolSale(-1)>>),
    OkBlock(<<SolSale(2), Cand(2, TRUE, TRUE, TRUE, 30, 2, SolSale1)>>),
    OkBlock(<<Cand(1, TRUE, TRUE, TRUE, 30, 2, Event("Tgt", 10, 1, "So11", 0, 9))>>),
    OkBlock(<<Cand(1, TRUE, TRUE, TRUE, 30, -1, Event("Xmnt", 7, 0, "USDC", OneUSD, 6))>>),
    OkBlock(<<Cand(1, TRUE, TRUE, TRUE, 30, -1,
                   Legs(<<Transfer("Tgt", "", 10, 1, Signer, "a", "b"),
                          Transfer("", "", 5, 0, "pool", "c", "d")>>, FALSE, 0))>>) }

\* the block as the call sees it when the context is cancelled before the
\* GetTransaction of candidate cut (cut = Len + 1: not cancelled in this call)
RECURSIVE CutTail(_, _)
CutTail(cs, cut) ==
  IF cs = <<>> THEN <<>>
  ELSE LET n == Len(cs)
       IN  Append(CutTail(SubSeq(cs, 1, n - 1), cut),
                  IF n >= cut THEN [cs[n] EXCEPT !.txOK = FALSE, !.ext = -1] ELSE cs[n])

SeenBlock(blk, done, cut) ==
  IF done THEN ErrBlock
  ELSE IF blk.st # "ok" THEN blk
  ELSE OkBlock(CutTail(blk.cands, cut))

CutOK(blk, cut) ==
  IF blk.st = "ok" THEN cut <= Len(blk.cands) + 1 ELSE cut = 1

CancelledDuring(blk, cut) == blk.st = "ok" /\ cut <= Len(blk.cands)

NumEligible(ps) == Len(addPoints(ps, [values |-> <<>>, weights |-> <<>>]).values)

FetchRecord(slot, r, looks) ==
  [slot |-> slot, st |-> r.st, npts |-> Len(r.pts), nelig |-> NumEligible(r.pts),
   looks |-> looks]

\* lines 137-144: the error of an empty collection, else the aggregate
Aggregate(a) == [err |-> "nil", v |-> a.v, kept |-> a.kept, sumW |-> a.sumW, ok |-> a.ok]

Conclude(vals, wts, r, minW) ==
  IF Len(vals) = 0 THEN ErrResult("noobs")
  ELSE Aggregate(VWAPWithLogFence(vals, wts, r, minW))

\* variant: the loop collects until three observations are held
LoopUntilMinPoints(vals, scn, cap, cur) == Len(vals) < 3 /\ scn < cap /\ cur # 0

\* line 114: the condition of the backoff loop (with the break at curr = 0)
LoopGoesOn(vals, scn, cap, cur) == Len(vals) = 0 /\ scn < cap /\ cur # 0

\* variant: a failed fetch is not counted
ScannedErrorUncounted(scn) == scn

\* line 126: scanned after a slot whose fetch failed
ScannedAfterError(scn) == scn + 1

\* variant: a failed fetch ends the walk as well
WalkEndsOnError(st, pts) == st = "err" \/ (st = "ok" /\ Len(pts) > 0)

\* lines 125-133: a failed fetch continues the loop, returned points end it
WalkEnds(st, pts) == st = "ok" /\ Len(pts) > 0

\* validation, defaults and SlotAtClosest (slotRes < 0: it returned an error)
Start ==
  /\ pc = "start"
  /\ \E clientOK \in BOOLEAN, tUnix \in {0, 100}, bs \in 0..MaxBackoff,
        est \in 1..MaxBackoff, r \in {<<1, 1>>, <<2, 1>>},
        mw \in {RZero, <<5, 1>>}, slotRes \in -1..MaxSlot :
       /\ bs = 0 \/ est = 1
       /\ backoffSlots' = IF bs <= 0 THEN est ELSE bs
       /\ fenceR' = EffectiveFenceR(r)
       /\ minWUSD' = EffectiveMinWUSD(mw)
       /\ IF ~clientOK THEN
            /\ result' = ErrResult("nil rpc client") /\ pc' = "done" /\ best' = best
          ELSE IF tUnix <= 0 THEN
            /\ result' = ErrResult("invalid timestamp") /\ pc' = "done" /\ best' = best
          ELSE IF ctxDone THEN
            /\ result' = ErrResult("ctx") /\ pc' = "done" /\ best' = best
          ELSE IF slotRes < 0 THEN
            /\ result' = ErrResult("slot") /\ pc' = "done" /\ best' = best
          ELSE
            /\ result' = result /\ pc' = "best" /\ best' = slotRes
  /\ UNCHANGED <<ctxDone, curr, scanned, values, weights, fetches, env, gvars, xvars>>

\* addPoints is called when the fetch gave points without an error
Collected(r, vals, wts) ==
  IF r.st = "ok" /\ Len(r.pts) > 0
  THEN addPoints(r.pts, [values |-> vals, weights |-> wts])
  ELSE [values |-> vals, weights |-> wts]

\* line 126 / 132 / 134: scanned after one iteration
ScannedAfter(r, scn) ==
  IF r.st = "err" THEN ScannedAfterError(scn)
  ELSE IF WalkEnds(r.st, r.pts) THEN scn ELSE scn + 1

\* lines 106-109: the closest slot
FetchBest ==
  /\ pc = "best"
  /\ \E blk \in WalkBlocks, cut \in 1..(MaxCands + 1) :
       /\ CutOK(blk, cut)
       /\ \E r \in {GetPricesAtSlot(SeenBlock(blk, ctxDone, cut), usdcMint, usdtMint)} :
          \E vw \in {Collected(r, values, weights)} :
            /\ ctxDone' = (ctxDone \/ CancelledDuring(blk, cut))
            /\ fetches' = Append(fetches, FetchRecord(best, r,
                 LooksAtSlot(SeenBlock(blk, ctxDone, cut), usdcMint, usdtMint)))
            /\ curr' = best
            /\ scanned' = 0
            /\ IF r.st = "panic" THEN
                 /\ pc' = "panicked" /\ UNCHANGED <<values, weights, result>>
               ELSE
                 /\ values' = vw.values
                 /\ weights' = vw.weights
                 /\ IF LoopGoesOn(vw.values, 0, backoffSlots, best)
                    THEN pc' = "backoff" /\ result' = result
                    ELSE pc' = "done" /\ result' = Conclude(vw.values, vw.weights, fenceR, minWUSD)
  /\ UNCHANGED <<best, backoffSlots, fenceR, minWUSD, env, gvars, xvars>>

\* lines 114-135: one iteration of the backoff loop
BackoffStep ==
  /\ pc = "backoff"
  /\ \E blk \in WalkBlocks, cut \in 1..(MaxCands + 1) :
       /\ CutOK(blk, cut)
       /\ \E r \in {GetPricesAtSlot(SeenBlock(blk, ctxDone, cut), usdcMint, usdtMint)} :
          \E vw \in {Collected(r, values, weights)}, scn \in {ScannedAfter(r, scanned)} :
            /\ ctxDone' = (ctxDone \/ CancelledDuring(blk, cut))
            /\ curr' = curr - 1
            /\ fetches' = Append(fetches, FetchRecord(curr - 1, r,
                 LooksAtSlot(SeenBlock(blk, ctxDone, cut), usdcMint, usdtMint)))
            /\ IF r.st = "panic" THEN
                 /\ pc' = "panicked" /\ UNCHANGED <<values, weights, result, scanned>>
               ELSE
                 /\ values' = vw.values
                 /\ weights' = vw.weights
                 /\ scanned' = scn
                 /\ IF ~WalkEnds(r.st, r.pts) /\ LoopGoesOn(vw.values, scn, backoffSlots, curr - 1)
                    THEN pc' = "backoff" /\ result' = result
                    ELSE pc' = "done" /\ result' = Conclude(vw.values, vw.weights, fenceR, minWUSD)
  /\ UNCHANGED <<best, backoffSlots, fenceR, minWUSD, env, gvars, xvars>>

\* the request context is cancelled or its deadline passes
Cancel ==
  /\ pc \in {"start", "best", "backoff"}
  /\ ~ctxDone
  /\ ctxDone' = TRUE
  /\ UNCHANGED <<pc, best, curr, scanned, backoffSlots, fenceR, minWUSD,
                 values, weights, fetches, result, env, gvars, xvars>>

Init ==
  /\ pc = "start" /\ ctxDone = FALSE /\ best = 0 /\ curr = 0 /\ scanned = 0
  /\ backoffSlots = 0 /\ fenceR = DefaultFenceR /\ minWUSD = DefaultMinWUSD
  /\ values = <<>> /\ weights = <<>> /\ fetches = <<>> /\ result = NoResult
  /\ env \in StableEnvs
  /\ SlotIdle
  /\ ExtraIdle

Next == Start \/ FetchBest \/ BackoffStep \/ Cancel

Spec == Init /\ [][Next]_vars

(***************************************************************************)
(* GetPricesAtSlot on its own, one step per loop iteration.                *)
(***************************************************************************)
\* lines 106-113: FilterTxsByMint and the early returns
SlotFilter ==
  /\ gpc = "call"
  /\ IF gblk.st = "err" THEN
       /\ gpc' = "returned" /\ gret' = [st |-> "err", pts |-> <<>>] /\ gidx' = gidx
     ELSE IF gblk.st = "absent" \/ gn = 0 THEN
       /\ gpc' = "returned" /\ gret' = [st |-> "ok", pts |-> <<>>] /\ gidx' = gidx
     ELSE
       /\ gpc' = "loop" /\ gret' = gret /\ gidx' = 1
  /\ UNCHANGED <<xvars, ovars, env, gblk, gn, cache, points, failed>>

\* lines 127-315: one filtered transaction, with the answers c that the RPC,
\* the decoder and the market give for it; the return follows the last one
SlotCandidate ==
  /\ gpc = "loop"
  /\ \E c \in Candidates(gidx) :
       LET r == ProcessCandidate(c, cache, usdcMint, usdtMint)
       IN  /\ gblk' = [gblk EXCEPT !.cands = Append(@, c)]
           /\ cache' = r.cache
           /\ failed' = IF r.look = "fail" THEN failed \cup {MinuteOf(c.bt)} ELSE failed
           /\ IF r.panic THEN
                /\ gpc' = "panicked" /\ UNCHANGED <<points, gret, gidx>>
              ELSE
                /\ points' = points \o r.pts
                /\ gidx' = gidx + 1
                /\ IF gidx = gn
                   THEN gpc' = "returned" /\ gret' = [st |-> "ok", pts |-> points \o r.pts]
                   ELSE gpc' = "loop" /\ gret' = gret
  /\ UNCHANGED <<xvars, ovars, env, gn>>

InitSlot ==
  /\ OrchIdle
  /\ ExtraIdle
  /\ env \in StableEnvs
  /\ gpc = "call" /\ gblk \in {ErrBlock, AbsentBlock, OkBlock(<<>>)}
  /\ gn \in 0..MaxCands /\ (gblk.st # "ok" => gn = 0)
  /\ gidx = 0 /\ cache = <<>>
  /\ points = <<>> /\ gret = [st |-> "none", pts |-> <<>>] /\ failed = {}

NextSlot == SlotFilter \/ SlotCandidate

SpecSlot == InitSlot /\ [][NextSlot]_vars

\* the stepwise loop and the operator used by the walk agree
SlotStepsAgree ==
  /\ gpc = "returned" => gret = GetPricesAtSlot(gblk, usdcMint, usdtMint)
  /\ gpc = "panicked" => GetPricesAtSlot(gblk, usdcMint, usdtMint).st = "panic"

(***************************************************************************)
(* Properties of GetTokenUSDPriceAtUnix (specification Spec).              *)
(***************************************************************************)
NumFetches == Len(fetches)
LastFetch == fetches[NumFetches]
BackoffFetched == IF NumFetches = 0 THEN 0 ELSE NumFetches - 1
Min(a, b) == IF a <= b THEN a ELSE b

\* C1: the slots are fetched in the order best, best-1, best-2, ...; every
\* slot fetched before the last one yielded no eligible observation, so the
\* observations held all come from the last slot fetched and no slot below
\* it is fetched.
C1_StopsAtFirstHit ==
  /\ \A i \in 1..NumFetches : fetches[i].slot = best - (i - 1)
  /\ \A i \in 1..(NumFetches - 1) : fetches[i].nelig = 0
  /\ Len(values) = (IF NumFetches = 0 THEN 0 ELSE LastFetch.nelig)
  /\ Len(weights) = Len(values)
  /\ pc = "done" /\ Len(values) > 0 => result.err = "nil"

C1_Witness ==
  /\ pc = "done" /\ NumFetches >= 3 /\ Len(values) > 0
  /\ fetches[1].nelig = 0 /\ LastFetch.slot = best - 2

\* C2: NoObservations is returned only when the closest slot and every
\* earlier slot down to the cap (or slot 0) has been fetched and none
\* yielded an eligible point.
C2_NoObsOnlyAfterFullWalk ==
  (pc = "done" /\ result.err = "noobs") =>
     /\ BackoffFetched = Min(backoffSlots, best)
     /\ \A i \in 1..NumFetches : fetches[i].nelig = 0

\* C3 as claimed: a return with err = nil has ok = true and priceUSD > 0.
C3_NilErrorMeansPositivePrice ==
  (pc = "done" /\ result.err = "nil") => (result.ok /\ RPos(result.v))

\* C3 amended: a return with err = nil has either ok = true, priceUSD > 0,
\* kept >= 1 and sumW > 0, or ok = false with priceUSD = 0, kept = 0 and
\* sumW = 0; a return with an error has priceUSD = 0, kept = 0, ok = false.
C3_NilErrorPositiveOrNotOk ==
  pc = "done" =>
    IF result.err = "nil"
    THEN \/ result.ok /\ RPos(result.v) /\ result.kept >= 1 /\ RPos(result.sumW)
            /\ result.kept <= Len(values)
         \/ ~result.ok /\ result.v = RZero /\ result.kept = 0 /\ result.sumW = RZero
    ELSE /\ result.err \in {"nil rpc client", "invalid timestamp", "slot", "ctx", "noobs"}
         /\ ~result.ok /\ result.v = RZero /\ result.kept = 0 /\ result.sumW = RZero

C3_Witness == pc = "done" /\ result.err = "nil" /\ ~result.ok /\ Len(values) = 2

\* C4: when the context is cancelled during the call (the arguments having
\* passed validation), the function returns the cancellation as its error,
\* never NoObservations and never a price.
C4_CancellationIsReturned ==
  (pc = "done" /\ ctxDone /\ result.err \notin {"nil rpc client", "invalid timestamp"})
     => result.err = "ctx"

\* C5: at most backoffSlots earlier slots are fetched, failed fetches
\* included, the walk cannot pass slot 0, and it has ended at a hit, at the
\* cap or at slot 0.
C5_BackoffBounded ==
  /\ BackoffFetched <= backoffSlots
  /\ scanned <= backoffSlots
  /\ BackoffFetched <= best
  /\ (pc = "done" /\ NumFetches >= 1) =>
        \/ LastFetch.npts > 0
        \/ scanned = backoffSlots
        \/ curr = 0

C5_Witness ==
  /\ pc = "done" /\ backoffSlots >= 2 /\ BackoffFetched = backoffSlots
  /\ \E i \in 2..NumFetches : fetches[i].st = "err"

\* C6: a backoff slot whose fetch fails adds no observation, counts as one
\* scanned slot, leaves the walk running while the cap and slot 0 allow it,
\* and its error is not what the caller gets.
C6_ErroredSlotSkipped ==
  [][ (pc = "backoff" /\ Len(fetches') = Len(fetches) + 1
        /\ fetches'[Len(fetches')].st = "err")
      => /\ values' = values /\ weights' = weights
         /\ scanned' = scanned + 1
         /\ curr' = curr - 1
         /\ (scanned' < backoffSlots /\ curr' # 0) => pc' = "backoff"
         /\ pc' = "done" => result'.err = "noobs" ]_vars

C6_Witness ==
  /\ NumFetches >= 3 /\ fetches[2].st = "err" /\ fetches[3].slot = fetches[2].slot - 1

(***************************************************************************)
(* Properties of GetPricesAtSlot (specification SpecSlot).                 *)
(***************************************************************************)
Returned == gpc = "returned" /\ gblk.st = "ok"
PointSet == {points[k] : k \in 1..Len(points)}
\* the candidate a point was derived from, and what the decoder made of it
CandOf(p) == gblk.cands[p.sig]
Decodes(c) == c.sig /\ c.txOK /\ c.parserOK /\ ProcessSwapData(c.data).st = "ok"
SwapOf(c) == ProcessSwapData(c.data)
TargetAmt(si) == IF TargetIsIn(si, TargetMint) THEN si.inAmt ELSE si.outAmt
CounterMint(si) == IF TargetIsIn(si, TargetMint) THEN si.outMint ELSE si.inMint
CounterAmt(si) == IF TargetIsIn(si, TargetMint) THEN si.outAmt ELSE si.inAmt
HasTarget(si) == TargetIsIn(si, TargetMint) \/ TargetIsOut(si, TargetMint)
ConfiguredStables == {env[1], env[2]} \ {""}

\* C7 as claimed: every returned point has priceUSD > 0 and targetQty > 0.
C7_PointsPositive ==
  Returned => \A k \in 1..Len(gret.pts) :
                 RPos(gret.pts[k].priceUSD) /\ RPos(gret.pts[k].qty)

\* C7 amended: every point collected or returned has targetQty > 0 and
\* priceUSD >= 0; priceUSD is 0 exactly for a zero counter amount or for a
\* SOL-paired swap whose minute-close lookup failed; a candidate with a zero
\* target amount yields no point.
C7_QtyPositivePriceNonNegative ==
  /\ \A p \in PointSet :
        /\ RPos(p.qty)
        /\ RPos(p.priceUSD) \/ p.priceUSD = RZero
        /\ p.priceUSD = RZero =>
              \/ p.baseAmt = 0
              \/ p.baseIsSOL /\ ~p.baseIsStable /\ MinuteOf(p.bt) \in failed
        /\ (p.baseAmt > 0 /\ p.baseIsStable) => RPos(p.priceUSD)
        /\ Decodes(CandOf(p)) /\ TargetAmt(SwapOf(CandOf(p))) > 0
  /\ Returned => gret.pts = points

C7_Witness ==
  /\ Returned
  /\ \E k \in 1..Len(gret.pts) :
        gret.pts[k].priceUSD = RZero /\ gret.pts[k].baseAmt > 0
  /\ \E i \in 1..Len(gblk.cands) :
        Decodes(gblk.cands[i]) /\ HasTarget(SwapOf(gblk.cands[i]))
        /\ TargetAmt(SwapOf(gblk.cands[i])) = 0

\* C8: a point is returned only for a swap whose token-in or token-out
\* mint is the target mint itself and whose counter mint is wrapped SOL or
\* one of the configured USDC/USDT mints.
C8_OnlyTargetAgainstSolOrStable ==
  Returned => \A k \in 1..Len(gret.pts) :
    LET si == SwapOf(CandOf(gret.pts[k]))
    IN  /\ si.inMint = TargetMint \/ si.outMint = TargetMint
        /\ gret.pts[k].baseMint \in {WrappedSOL} \cup ConfiguredStables

\* C9: when the call returns, every decodable stable-paired swap of the
\* target with positive amounts has a point with priceUSD > 0 whatever the
\* lookups did, and every SOL-paired one with positive amounts whose minute
\* saw no failed lookup has a point with priceUSD > 0; the call returns the
\* points without an error.
C9_LookupFailureCostsOnlyItsMinute ==
  Returned =>
    /\ gret.st = "ok"
    /\ \A i \in 1..Len(gblk.cands) :
         LET c == gblk.cands[i]
             si == SwapOf(c)
             priced == \E p \in PointSet : p.sig = i /\ RPos(p.priceUSD)
         IN  (Decodes(c) /\ HasTarget(si) /\ TargetAmt(si) > 0 /\ CounterAmt(si) > 0) =>
               /\ IsStableCounter(CounterMint(si), usdcMint, usdtMint) => priced
               /\ (IsSOLCounter(CounterMint(si)) /\ MinuteOf(c.bt) \notin failed) => priced

C9_Witness ==
  /\ Returned /\ failed = {MinuteOf(30)}
  /\ \E p \in PointSet : p.baseIsSOL /\ p.bt = 30 /\ p.priceUSD = RZero
  /\ \E p \in PointSet : p.baseIsStable /\ p.bt = 30 /\ RPos(p.priceUSD)
  /\ \E p \in PointSet : p.baseIsSOL /\ p.bt = 90 /\ RPos(p.priceUSD)

\* C10: the call never panics, and a block that was fetched is answered
\* with the points of its other candidates and a nil error.
C10_CandidateFailureOnlySkips ==
  /\ gpc # "panicked"
  /\ Returned => gret.st = "ok"

(***************************************************************************)
(* SlotAtClosest (utils.go): the time -> slot search.  sc holds the        *)
(* function's parameters and locals, one action per block-time probe.      *)
(***************************************************************************)
MaxProbes == 8

DefaultMaxProbes == 1024
minuteSlack == 60
MaxTries == 32
MaxIter == 64
minSlotsWindow == 200
fewSeconds == 5

GuessNudges == <<50, 200, 1000, 5000>>
ExpandNudges == <<1000, 5000, 25000>>

absI64(x) == IF x < 0 THEN -x ELSE x

\* cappedAdd(a, b, max): a+b clamped within [0, max]
cappedAdd(a, b, max) ==
  IF b = 0 THEN a
  ELSE IF b > 0 THEN (IF a + b > max THEN max ELSE a + b)
  ELSE IF -b > a THEN 0 ELSE a - (-b)

\* math.Round of a non-negative fraction
RoundRat(x) == (2 * x[1] + x[2]) \div (2 * x[2])

RMax(x, y) == IF RLe(x, y) THEN y ELSE x

\* estimateSlotGuess: sps is the rate read from the performance samples,
\* or the fallback when there are none
FallbackSps == <<5, 2>>

estimateSlotGuess(nowSlot, btNow, targetUnix, sps) ==
  LET dt == IF btNow - targetUnix < 0 THEN 0 ELSE btNow - targetUnix
      raw == RAdd(<<nowSlot, 1>>, RMul(<<-1, 1>>, RMul(sps, <<dt, 1>>)))
      est == IF raw[1] < 0 THEN RZero ELSE raw
      g == RoundRat(est)
  IN  IF g > nowSlot THEN nowSlot ELSE g

\* the initial window, lines 359-378
InitialSpan(nowSlot, btNow, targetUnix, sps) ==
  LET lookbackSec == IF btNow - targetUnix < 0 THEN 0 ELSE btNow - targetUnix
      winSec == RMax(Rat(lookbackSec * 5, 100), <<fewSeconds, 1>>)
      raw == RoundRat(RMul(sps, winSec))
      span == IF raw < minSlotsWindow THEN minSlotsWindow ELSE raw
  IN  IF span > nowSlot THEN nowSlot ELSE span

\* spanSlots * 2, or spanSlots + 1 when that is 0.  Every span above
\* nowSlot is clamped to the same lo and hi by cappedAdd, so the doubling
\* stops there.
DoubledSpan(span, nowSlot) ==
  IF span * 2 = 0 THEN span + 1
  ELSE IF span > nowSlot THEN span ELSE span * 2

\* getBT without the test of the remaining budget
getBTUnbudgeted(s, ans) ==
  [ok |-> ans # -1, t |-> IF ans = -1 THEN 0 ELSE ans,
   left |-> s.maxProbes - 1, asked |-> TRUE]

\* getBT: ans is the RPC's answer for the slot (-1: error or nil)
getBT(s, ans) ==
  IF s.maxProbes <= 0 THEN [ok |-> FALSE, t |-> 0, left |-> s.maxProbes, asked |-> FALSE]
  ELSE [ok |-> ans # -1, t |-> IF ans = -1 THEN 0 ELSE ans,
        left |-> s.maxProbes - 1, asked |-> TRUE]

Within(t, s) == absI64(t - s.target) <= minuteSlack

ReturnSlot(slot, tieSlot) == [st |-> "ok", best |-> slot, tie |-> tieSlot]

SlotError(msg) == [st |-> msg, best |-> 0, tie |-> -1]

\* lines 500-512: the bracket from a resolved guess, else the first expand
EnterExpand(s, from) ==
  [s EXCEPT !.pc = "expLo", !.ret = from, !.nidx = 0,
            !.lo = cappedAdd(s.guess, -s.span, s.nowSlot),
            !.hi = cappedAdd(s.guess, s.span, s.nowSlot)]

InitBracket(s) ==
  IF s.okGuess
  THEN IF s.tGuess >= s.target
       THEN [s EXCEPT !.pc = "loop", !.lo = 0, !.hi = s.guess,
                      !.tLoOK = FALSE, !.tHiOK = TRUE, !.tHi = s.tGuess]
       ELSE [s EXCEPT !.pc = "loop", !.lo = s.guess, !.hi = s.nowSlot,
                      !.tLoOK = TRUE, !.tHiOK = FALSE, !.tLo = s.tGuess]
  ELSE EnterExpand(s, "pre")

\* leaving the bracketing loop: lines 566-587 when a side is unresolved,
\* else the binary search
LoopExit(s) ==
  IF ~(s.tLoOK /\ s.tHiOK) THEN [s EXCEPT !.pc = "after"]
  ELSE [s EXCEPT !.pc = "binary", !.iter = 0]

\* lines 525-563: the rest of one iteration of the bracketing loop
LoopRest(s) ==
  IF s.tLoOK /\ s.tHiOK
  THEN LET w == IF s.hi < s.lo
                THEN [s EXCEPT !.lo = s.hi, !.hi = s.lo, !.tLo = s.tHi, !.tHi = s.tLo]
                ELSE s
       IN  IF w.tLo <= w.target /\ w.target <= w.tHi THEN LoopExit(w)
           ELSE IF w.target < w.tLo
           THEN [w EXCEPT !.span = DoubledSpan(w.span, w.nowSlot),
                          !.guess = w.lo, !.tGuess = w.tLo, !.okGuess = TRUE,
                          !.tLoOK = FALSE, !.tHiOK = FALSE,
                          !.tries = w.tries + 1, !.pc = "loop"]
           ELSE [w EXCEPT !.span = DoubledSpan(w.span, w.nowSlot),
                          !.guess = w.hi, !.tGuess = w.tHi, !.okGuess = TRUE,
                          !.tLoOK = FALSE, !.tHiOK = FALSE,
                          !.tries = w.tries + 1, !.pc = "loop"]
  ELSE [s EXCEPT !.span = DoubledSpan(s.span, s.nowSlot),
                 !.tries = s.tries + 1, !.pc = "loop"]

\* what follows a return of expand: nothing at line 511, lines 516-523 in
\* the loop.  The result is [s, out] where out is the value returned by
\* SlotAtClosest, or NoSlotResult.
Going(s) == [s |-> s, out |-> NoSlotResult]

Leaving(s, slot, tieSlot) ==
  [s |-> [s EXCEPT !.pc = "done"], out |-> ReturnSlot(slot, tieSlot)]

ExpandReturn(s, ok) ==
  IF s.ret = "pre" THEN Going([s EXCEPT !.pc = "loop"])
  ELSE IF ~ok THEN Going(LoopExit(s))
  ELSE IF s.best # 0 /\ (Within(s.tLo, s) \/ Within(s.tHi, s))
  THEN Leaving(s, s.best, -1)
  ELSE Going(LoopRest(s))

\* the first nudge step from index i on whose guard holds, 0 if none
NextLoNudge(s, i) ==
  LET ok == {k \in i..Len(ExpandNudges) : s.lo + ExpandNudges[k] <= s.hi}
  IN  IF ok = {} THEN 0 ELSE CHOOSE k \in ok : \A j \in ok : k <= j

NextHiNudge(s, i) ==
  LET ok == {k \in i..Len(ExpandNudges) : s.hi > s.lo + ExpandNudges[k]}
  IN  IF ok = {} THEN 0 ELSE CHOOSE k \in ok : \A j \in ok : k <= j

\* the end of expand, lines 494-497
ExpandEnd(s) == ExpandReturn(s, s.tLoOK \/ s.tHiOK)

ToExpandHi(s) == Going([s EXCEPT !.pc = "expHi", !.nidx = 0])

\* expand, the lo side (lines 443-468): one probe, of lo when nidx = 0 and
\* of lo + step otherwise
ExpandLoProbe(s, g) ==
  LET slot == IF s.nidx = 0 THEN s.lo ELSE s.lo + ExpandNudges[s.nidx]
      p == [s EXCEPT !.maxProbes = g.left]
  IN  IF g.ok
      THEN LET q == [p EXCEPT !.lo = slot, !.tLo = g.t, !.tLoOK = TRUE]
           IN  IF Within(g.t, q)
               THEN ExpandReturn([q EXCEPT !.best = slot], TRUE)
               ELSE ToExpandHi(q)
      ELSE LET n == NextLoNudge(p, s.nidx + 1)
           IN  IF n = 0 THEN ToExpandHi(p)
               ELSE Going([p EXCEPT !.nidx = n])

\* expand, the hi side (lines 469-493)
ExpandHiProbe(s, g) ==
  LET slot == IF s.nidx = 0 THEN s.hi ELSE s.hi - ExpandNudges[s.nidx]
      p == [s EXCEPT !.maxProbes = g.left]
  IN  IF g.ok
      THEN LET q == [p EXCEPT !.hi = slot, !.tHi = g.t, !.tHiOK = TRUE]
           IN  IF Within(g.t, q)
               THEN ExpandReturn([q EXCEPT !.best = slot], TRUE)
               ELSE ExpandEnd(q)
      ELSE LET n == NextHiNudge(p, s.nidx + 1)
           IN  IF n = 0 THEN ExpandEnd(p)
               ELSE Going([p EXCEPT !.nidx = n])

\* the slot a nudge of the guess probes, lines 405-430: step nidx, below
\* the guess then above it; [i, side] or i = 0 when the steps are used up
NudgeFrom(s, i, side) ==
  LET all == {<<k, d>> \in (1..Len(GuessNudges)) \X {"minus", "plus"} :
                /\ k > i \/ (k = i /\ (side = "minus" \/ d = "plus"))
                /\ IF d = "minus" THEN s.guess >= GuessNudges[k]
                   ELSE s.guess + GuessNudges[k] <= s.nowSlot}
      first == CHOOSE x \in all : \A y \in all :
                 x[1] < y[1] \/ (x[1] = y[1] /\ (x[2] = "minus" \/ y[2] = "plus"))
  IN  IF all = {} THEN [i |-> 0, side |-> "minus"]
      ELSE [i |-> first[1], side |-> first[2]]

NudgeSlot(s) ==
  IF s.nside = "minus" THEN s.guess - GuessNudges[s.nidx]
  ELSE s.guess + GuessNudges[s.nidx]

\* lines 394-402
GuessProbe(s, g) ==
  LET p == [s EXCEPT !.maxProbes = g.left, !.tGuess = g.t, !.okGuess = g.ok]
  IN  IF g.ok
      THEN IF Within(g.t, p) THEN Leaving(p, p.guess, -1)
           ELSE Going(InitBracket(p))
      ELSE LET n == NudgeFrom(p, 1, "minus")
           IN  IF n.i = 0 THEN Going(InitBracket(p))
               ELSE Going([p EXCEPT !.pc = "nudge", !.nidx = n.i, !.nside = n.side])

\* lines 405-430, one probe
NudgeProbe(s, g) ==
  LET slot == NudgeSlot(s)
      p == [s EXCEPT !.maxProbes = g.left]
  IN  IF g.ok
      THEN LET q == [p EXCEPT !.tGuess = g.t, !.okGuess = TRUE, !.guess = slot]
           IN  IF Within(g.t, q) THEN Leaving(q, slot, -1)
               ELSE Going(InitBracket(q))
      ELSE LET n == IF s.nside = "minus" THEN NudgeFrom(p, s.nidx, "plus")
                    ELSE NudgeFrom(p, s.nidx + 1, "minus")
           IN  IF n.i = 0 THEN Going(InitBracket(p))
               ELSE Going([p EXCEPT !.nidx = n.i, !.nside = n.side])

\* lines 566-576, the probe of lo and the probe of hi
ResolveLoProbe(s, g) ==
  IF s.tLoOK THEN [s EXCEPT !.pc = "afterHi"]
  ELSE IF g.ok THEN [s EXCEPT !.pc = "afterHi", !.maxProbes = g.left,
                              !.tLo = g.t, !.tLoOK = TRUE]
  ELSE [s EXCEPT !.pc = "afterHi", !.maxProbes = g.left]

\* lines 572-586
AfterDecision(s) ==
  IF s.tLoOK /\ ~s.tHiOK THEN s.lo
  ELSE IF s.tHiOK /\ ~s.tLoOK THEN s.hi
  ELSE IF s.okGuess THEN s.guess
  ELSE s.nowSlot

ResolveHiProbe(s, g) ==
  LET p == IF s.tHiOK THEN s
           ELSE IF g.ok THEN [s EXCEPT !.maxProbes = g.left, !.tHi = g.t, !.tHiOK = TRUE]
           ELSE [s EXCEPT !.maxProbes = g.left]
  IN  Leaving(p, AfterDecision(p), -1)

\* lines 638-662
FinalDecision(s) ==
  LET dLo == absI64(s.tLo - s.target)
      dHi == absI64(s.tHi - s.target)
  IN  IF dLo <= minuteSlack \/ dHi <= minuteSlack
      THEN (IF dLo <= dHi THEN Leaving(s, s.lo, -1) ELSE Leaving(s, s.hi, -1))
      ELSE IF dLo < dHi THEN Leaving(s, s.lo, -1)
      ELSE IF dHi < dLo THEN Leaving(s, s.hi, -1)
      ELSE Leaving(s, s.lo, s.hi)

BinaryGoesOn(s) == s.lo + 1 < s.hi /\ s.iter < MaxIter /\ s.maxProbes > 0

BinaryMid(s) == s.lo + ((s.hi - s.lo) \div 2)

\* lines 592-635, one iteration.  Lines 621-630 are not modelled: a tMid
\* equal to the target is within minuteSlack and has returned at line 618.
BinaryProbe(s, g) ==
  LET mid == BinaryMid(s)
      p == [s EXCEPT !.maxProbes = g.left, !.iter = s.iter + 1]
  IN  IF ~g.ok
      THEN IF (mid - s.lo) <= (s.hi - mid)
           THEN IF mid > s.lo
                THEN Going([p EXCEPT !.hi = mid, !.tHi = g.t, !.tHiOK = FALSE])
                ELSE Going([p EXCEPT !.lo = mid, !.tLo = g.t, !.tLoOK = FALSE])
           ELSE IF s.hi > mid
                THEN Going([p EXCEPT !.lo = mid, !.tLo = g.t, !.tLoOK = FALSE])
                ELSE Going([p EXCEPT !.hi = mid, !.tHi = g.t, !.tHiOK = FALSE])
      ELSE IF Within(g.t, p) THEN Leaving(p, mid, -1)
      ELSE IF g.t < p.target
      THEN Going([p EXCEPT !.lo = mid, !.tLo = g.t, !.tLoOK = TRUE])
      ELSE Going([p EXCEPT !.hi = mid, !.tHi = g.t, !.tHiOK = TRUE])

(***************************************************************************)
(* The RPC seen by SlotAtClosest.  Block times are given relative to the   *)
(* target; a slot asked twice answers the same, and the answers never      *)
(* decrease with the slot number.                                          *)
(***************************************************************************)
TargetUnix == Pow10(3)

TimeOffsets == {-200, -61, -60, 0, 60, 61, 200}

NowOffsets == {0, 4, 200, 4000}

NowSlots == {0, 3, 30000}

SmallNow == 3

SpsChoices == {FallbackSps, <<1, 4>>}

\* the whole budget is explored on the short chains only
Budgets(nowSlot) ==
  IF nowSlot <= SmallNow THEN {0} \cup (1..MaxProbes) ELSE 1..MaxProbes

Fits(slot, t) ==
  /\ t <= sc.btNow
  /\ \A o \in DOMAIN probed :
       probed[o] # -1 => /\ (o < slot => probed[o] <= t)
                         /\ (o > slot => t <= probed[o])

Answers(slot) ==
  IF slot = sc.nowSlot THEN {sc.btNow}
  ELSE IF slot \in DOMAIN probed THEN {probed[slot]}
  ELSE {-1} \cup {t \in {TargetUnix + d : d \in TimeOffsets} : Fits(slot, t)}

\* the record of a probe: nothing when the budget refused it
Asked(slot, ans, g) == IF g.asked THEN (slot :> ans) @@ probed ELSE probed

\* calls counts the requests made by getBT, rpcs every GetBlockTime request
Counted(s, g) ==
  [s EXCEPT !.calls = sc.calls + (IF g.asked THEN 1 ELSE 0),
            !.rpcs = sc.rpcs + (IF g.asked THEN 1 ELSE 0)]

Step(slot, ans, g, r) ==
  /\ sc' = Counted(r.s, g)
  /\ sres' = r.out
  /\ probed' = Asked(slot, ans, g)
  /\ UNCHANGED <<ovars, env, gvars, pvars, yvars>>

\* lines 325-378
SlotStart ==
  /\ sc.pc = "idle"
  /\ \E slotErr \in BOOLEAN, nowSlot \in NowSlots, sps \in SpsChoices,
        bt \in {-1} \cup {TargetUnix + d : d \in NowOffsets},
        targetUnix \in {0, TargetUnix} :
       \E maxProbes \in Budgets(nowSlot) :
         LET budget == IF maxProbes <= 0 THEN DefaultMaxProbes ELSE maxProbes
             target == IF targetUnix <= 0 THEN bt ELSE targetUnix
             s0 == [sc EXCEPT !.budget = budget, !.maxProbes = budget, !.rpcs = 1,
                              !.nowSlot = nowSlot, !.btNow = bt, !.target = target]
         IN  IF slotErr
             THEN /\ sc' = [sc EXCEPT !.pc = "done", !.budget = budget, !.maxProbes = budget]
                  /\ sres' = SlotError("get slot failed")
             ELSE IF bt = -1
             THEN /\ sc' = [sc EXCEPT !.pc = "done", !.budget = budget,
                                      !.maxProbes = budget, !.nowSlot = nowSlot,
                                      !.rpcs = 1]
                  /\ sres' = SlotError("failed to read block time for latest finalized slot")
             ELSE IF target >= bt
             THEN /\ sc' = [s0 EXCEPT !.pc = "done"]
                  /\ sres' = ReturnSlot(nowSlot, -1)
             ELSE /\ sc' = [s0 EXCEPT !.pc = "guess",
                                      !.guess = estimateSlotGuess(nowSlot, bt, target, sps),
                                      !.span = InitialSpan(nowSlot, bt, target, sps)]
                  /\ sres' = NoSlotResult
  /\ UNCHANGED <<probed, ovars, env, gvars, pvars, yvars>>

ProbeGuess ==
  /\ sc.pc = "guess"
  /\ \E ans \in Answers(sc.guess) : \E g \in {getBT(sc, ans)} :
       \E r \in {GuessProbe(sc, g)} : Step(sc.guess, ans, g, r)

NudgeGuess ==
  /\ sc.pc = "nudge"
  /\ \E ans \in Answers(NudgeSlot(sc)) : \E g \in {getBT(sc, ans)} :
       \E r \in {NudgeProbe(sc, g)} : Step(NudgeSlot(sc), ans, g, r)

\* line 514 and the test of line 515
LoopTop ==
  /\ sc.pc = "loop"
  /\ sc' = IF sc.tries < MaxTries /\ sc.maxProbes > 0
           THEN IF ~sc.tLoOK \/ ~sc.tHiOK THEN EnterExpand(sc, "loop")
                ELSE LoopRest(sc)
           ELSE LoopExit(sc)
  /\ UNCHANGED <<probed, sres, ovars, env, gvars, pvars, yvars>>

ExpandLoSlot == IF sc.nidx = 0 THEN sc.lo ELSE sc.lo + ExpandNudges[sc.nidx]

ExpandHiSlot == IF sc.nidx = 0 THEN sc.hi ELSE sc.hi - ExpandNudges[sc.nidx]

ExpandLo ==
  /\ sc.pc = "expLo"
  /\ \E ans \in Answers(ExpandLoSlot) : \E g \in {getBT(sc, ans)} :
       \E r \in {ExpandLoProbe(sc, g)} : Step(ExpandLoSlot, ans, g, r)

ExpandHi ==
  /\ sc.pc = "expHi"
  /\ \E ans \in Answers(ExpandHiSlot) : \E g \in {getBT(sc, ans)} :
       \E r \in {ExpandHiProbe(sc, g)} : Step(ExpandHiSlot, ans, g, r)

\* a side already resolved is not asked again
NotAsked == [ok |-> FALSE, t |-> 0, left |-> sc.maxProbes, asked |-> FALSE]

ResolveLo ==
  /\ sc.pc = "after"
  /\ \E ans \in Answers(sc.lo) :
       \E g \in {IF sc.tLoOK THEN NotAsked ELSE getBT(sc, ans)} :
         \E r \in {Going(ResolveLoProbe(sc, g))} : Step(sc.lo, ans, g, r)

ResolveHi ==
  /\ sc.pc = "afterHi"
  /\ \E ans \in Answers(sc.hi) :
       \E g \in {IF sc.tHiOK THEN NotAsked ELSE getBT(sc, ans)} :
         \E r \in {ResolveHiProbe(sc, g)} : Step(sc.hi, ans, g, r)

BinaryStep ==
  /\ sc.pc = "binary"
  /\ BinaryGoesOn(sc)
  /\ \E ans \in Answers(BinaryMid(sc)) : \E g \in {getBT(sc, ans)} :
       \E r \in {BinaryProbe(sc, g)} : Step(BinaryMid(sc), ans, g, r)

BinaryEnd ==
  /\ sc.pc = "binary"
  /\ ~BinaryGoesOn(sc)
  /\ \E r \in {FinalDecision(sc)} : sc' = r.s /\ sres' = r.out
  /\ UNCHANGED <<probed, ovars, env, gvars, pvars, yvars>>

InitClosest ==
  /\ OrchIdle
  /\ SlotIdle
  /\ env = <<"USDC", "USDT">>
  /\ ExtraIdle

NextClosest ==
  \/ SlotStart \/ ProbeGuess \/ NudgeGuess \/ LoopTop \/ ExpandLo \/ ExpandHi
  \/ ResolveLo \/ ResolveHi \/ BinaryStep \/ BinaryEnd

SpecClosest == InitClosest /\ [][NextClosest]_vars

(***************************************************************************)
(* Properties of SlotAtClosest, checked under SpecClosest.                 *)
(***************************************************************************)
\* the slots for which a probe of this call obtained a block time
ProbedKnown == {s \in DOMAIN probed : probed[s] # -1}

ProbeDist(s) == absI64(probed[s] - sc.target)

Searched == sc.pc = "done" /\ sres.st = "ok" /\ sc.calls > 0

\* C11: for the slot returned as best, no slot whose block time a probe of
\* the same call obtained is strictly closer to the target.
C11_NoProbedSlotCloser ==
  (Searched /\ sres.best \in ProbedKnown) =>
    \A s \in ProbedKnown : ProbeDist(s) >= ProbeDist(sres.best)

\* C12: if a probed slot has a known block time within 60 s of the target,
\* the slot returned has a block time within 60 s too.
C12_WithinSlackIsReturned ==
  (Searched /\ sres.best \in ProbedKnown
     /\ \E s \in ProbedKnown : ProbeDist(s) <= minuteSlack) =>
    ProbeDist(sres.best) <= minuteSlack

\* C13: a tie that is returned differs from best, both slots have known
\* block times, and the two times are equally far from the target.
C13_TieIsEquidistant ==
  (sc.pc = "done" /\ sres.st = "ok" /\ sres.tie # -1) =>
    /\ sres.tie # sres.best
    /\ sres.tie \in ProbedKnown /\ sres.best \in ProbedKnown
    /\ ProbeDist(sres.tie) = ProbeDist(sres.best)

\* C14 as stated: the GetBlockTime requests of one call never exceed
\* maxProbes (DefaultMaxProbes when maxProbes <= 0).
C14_BlockTimeCallsWithinMaxProbes == sc.rpcs <= sc.budget

\* C14, amended: the requests made through getBT never exceed maxProbes,
\* the read of the latest slot's time comes on top of them, and once the
\* budget is used up no further GetBlockTime request is made.
C14_ProbesWithinBudget ==
  /\ [](sc.calls <= sc.budget /\ sc.rpcs <= sc.budget + 1
          /\ sc.calls + sc.maxProbes = (IF sc.pc = "idle" THEN 0 ELSE sc.budget))
  /\ [][(sc.pc # "idle" /\ sc.maxProbes <= 0) =>
          (sc'.rpcs = sc.rpcs /\ probed' = probed)]_vars

\* a call that used its whole budget of at least two probes
C14_Witness ==
  sc.pc = "done" /\ sc.budget >= 2 /\ sc.maxProbes = 0 /\ sc.calls = sc.budget

\* C15: for a past target, when no probe yields a block time, the call
\* returns an error instead of a slot.
C15_NoBlockTimeIsAnError ==
  (sc.pc = "done" /\ sc.target < sc.btNow /\ ProbedKnown = {}) => sres.st # "ok"

(***************************************************************************)
(* VWAPWithLogFence as a function of its arguments: prices and weights as  *)
(* addPoints passes them (positive), a fence parameter on either side of   *)
(* 1, and a dust threshold.                                                *)
(***************************************************************************)
MaxEntries == 3

AggValues == {<<1, 1>>, <<2, 1>>, <<4, 1>>, <<5, 1>>}

\* the last weight is below the default dust threshold
AggWeights == {<<1, 1>>, <<3, 1>>, <<1, Pow10(7)>>}

AggFences == {<<1, 1>>, DefaultFenceR, <<2, 1>>}

InitVWAP ==
  /\ OrchIdle /\ SlotIdle /\ SearchIdle
  /\ env = <<"USDC", "USDT">>
  /\ http = HttpIdle /\ filt = FiltIdle /\ parse = ParseIdle /\ MoreIdle
  /\ \E n \in 0..MaxEntries :
       \E vs \in [1..n -> AggValues], ws \in [1..n -> AggWeights], r \in AggFences :
         agg = [pc |-> "call", values |-> vs, weights |-> ws, r |-> r,
                minWeight |-> DefaultMinWUSD, out |-> VWAPFail]

CallVWAP ==
  /\ agg.pc = "call"
  /\ agg' = [agg EXCEPT !.pc = "done",
                         !.out = VWAPWithLogFence(agg.values, agg.weights, agg.r, agg.minWeight)]
  /\ UNCHANGED <<ovars, env, gvars, svars, http, filt, parse, yvars>>

NextVWAP == CallVWAP

SpecVWAP == InitVWAP /\ [][NextVWAP]_vars

\* the entries that survive the dust filter, their unweighted median, and
\* those of them between median/r and r*median
AggSurvivors == DustKept(agg.weights, agg.minWeight)

AggMedian == Median(SortRats(SeqOfSet(AggSurvivors, agg.values)))

AggInside ==
  {i \in AggSurvivors : /\ RLe(RQuo(AggMedian, agg.r), agg.values[i])
                        /\ RLe(agg.values[i], RMul(AggMedian, agg.r))}

AggWeighted == [i \in 1..Len(agg.values) |-> RMul(agg.weights[i], agg.values[i])]

LookupsMade ==
  {x \in (1..Len(fetches)) \X (1..MaxCands) :
     x[2] <= Len(fetches[x[1]].looks) /\ fetches[x[1]].looks[x[2]].look # "none"}

LookAt(x) == fetches[x[1]].looks[x[2]]

Earlier(x, y) == x[1] < y[1] \/ (x[1] = y[1] /\ x[2] < y[2])

HttpAttempts == 3

HttpStatuses == {200, 204, 400, 404, 429, 500, 503}

HttpOutcomes ==
  {[transport |-> TRUE, status |-> 0, decodes |-> FALSE]}
  \cup {[transport |-> FALSE, status |-> st, decodes |-> d] :
          st \in HttpStatuses, d \in BOOLEAN}

\* lastErr after a response
ResponseError(o) ==
  IF o.status >= 200 /\ o.status < 300
  THEN (IF o.decodes THEN "nil" ELSE "decode")
  ELSE "http status"

\* the end of one iteration: the next one, or the return after the last
NextAttempt(h, err) ==
  IF h.i + 1 < HttpAttempts
  THEN [h EXCEPT !.i = h.i + 1, !.lastErr = err]
  ELSE [h EXCEPT !.i = h.i + 1, !.lastErr = err, !.pc = "done", !.ret = err]

\* one iteration of the loop with the outcome o of h.c.Do
AfterAttempt(h, o) ==
  LET g == [h EXCEPT !.outcomes = Append(h.outcomes, o)]
  IN  IF o.transport THEN NextAttempt(g, "transport")
      ELSE IF ResponseError(o) = "nil"
      THEN [g EXCEPT !.lastErr = "nil", !.pc = "done", !.ret = "nil"]
      ELSE NextAttempt(g, ResponseError(o))

HttpStart ==
  /\ http.pc = "idle"
  /\ \E reqOK \in BOOLEAN :
       http' = IF reqOK THEN [http EXCEPT !.pc = "loop"]
               ELSE [http EXCEPT !.pc = "done", !.ret = "request"]
  /\ UNCHANGED <<ovars, env, gvars, svars, agg, filt, parse, yvars>>

HttpAttempt ==
  /\ http.pc = "loop"
  /\ http.i < HttpAttempts
  /\ \E o \in HttpOutcomes : http' = AfterAttempt(http, o)
  /\ UNCHANGED <<ovars, env, gvars, svars, agg, filt, parse, yvars>>

InitHTTP ==
  /\ OrchIdle /\ SlotIdle /\ ExtraIdle
  /\ env = <<"USDC", "USDT">>

NextHTTP == HttpStart \/ HttpAttempt

SpecHTTP == InitHTTP /\ [][NextHTTP]_vars

\* an attempt after which another one is warranted: a transport error, an
\* HTTP 429 or an HTTP 5xx
Transient(o) == o.transport \/ o.status = 429 \/ o.status >= 500

\* C18: a lookup makes at most 3 attempts, and an attempt is followed by
\* another one only when it ended in a transport error, a 429 or a 5xx.
C18_RetryOnlyAfterTransient ==
  /\ Len(http.outcomes) <= HttpAttempts
  /\ \A k \in 1..(Len(http.outcomes) - 1) : Transient(http.outcomes[k])

(***************************************************************************)
(* FilterTxsByMint (part_003).  A transaction of the block carries its     *)
(* pre and post token-balance rows, one per account index at most, each    *)
(* with a mint and an amount written in decimal digits.                    *)
(***************************************************************************)
MaxTxs == 2

AcctIndices == {0, 1}

Digits == ("0" :> 0) @@ ("1" :> 1) @@ ("2" :> 2) @@ ("3" :> 3) @@ ("4" :> 4)
          @@ ("5" :> 5) @@ ("6" :> 6) @@ ("7" :> 7) @@ ("8" :> 8) @@ ("9" :> 9)

\* parse: big.Int.SetString(s, 10), 0 when the text is no number
RECURSIVE DigitsValue(_)
DigitsValue(s) ==
  IF s = <<>> THEN 0 ELSE 10 * DigitsValue(SubSeq(s, 1, Len(s) - 1)) + Digits[s[Len(s)]]

parseAmount(s) ==
  IF s = <<>> \/ \E k \in 1..Len(s) : s[k] \notin DOMAIN Digits THEN 0
  ELSE DigitsValue(s)

\* preByIdx / postByIdx: the rows of the target mint by account index
ByIdx(rows, mint) == {i \in DOMAIN rows : rows[i] # NoRow /\ rows[i].mint = mint}

ZeroText == <<"0">>

AmtOf(rows, I, i) == IF i \in I THEN rows[i].amt ELSE ZeroText

RECURSIVE SumInts(_, _)
SumInts(I, f) ==
  IF I = {} THEN 0
  ELSE LET i == CHOOSE x \in I : TRUE IN f[i] + SumInts(I \ {i}, f)

\* variant: the transaction is kept when its total delta is not zero
KeepOnTotal(perAcct, total) == total # 0

\* anyNonZero, lines 147-172
AnyNonZero(perAcct, total) == \E i \in DOMAIN perAcct : perAcct[i] # 0

Touch(tx, pre, post, perAcct, i) ==
  [idx |-> i, preAmount |-> AmtOf(tx.pre, pre, i), postAmount |-> AmtOf(tx.post, post, i),
   delta |-> perAcct[i]]

\* one iteration of the loop over blk.Transactions (lines 70-206); the
\* range over the map seen visits the indices in the order tx.order
FilterTx(tx, mint) ==
  LET pre == ByIdx(tx.pre, mint)
      post == ByIdx(tx.post, mint)
      seen == pre \cup post
      perAcct == [i \in seen |->
                    parseAmount(AmtOf(tx.post, post, i)) - parseAmount(AmtOf(tx.pre, pre, i))]
      total == SumInts(seen, perAcct)
      order == SelectSeq(tx.order, LAMBDA i : i \in seen)
  IN  IF ~tx.meta THEN NotKept
      ELSE IF pre = {} /\ post = {} THEN NotKept
      ELSE IF ~AnyNonZero(perAcct, total) THEN NotKept
      ELSE [kept |-> TRUE, perAcct |-> perAcct, total |-> total,
            touches |-> [k \in 1..Len(order) |-> Touch(tx, pre, post, perAcct, order[k])]]

\* the amounts of the rows, with the number each text denotes
AmountTexts == (<<"0">> :> 0) @@ (<<"5">> :> 5) @@ (<<"0", "5">> :> 5)

RowChoices ==
  {NoRow, [mint |-> "Xmnt", amt |-> <<"5">>]}
  \cup {[mint |-> TargetMint, amt |-> a] : a \in DOMAIN AmountTexts}

NoRows == [i \in AcctIndices |-> NoRow]

\* a transaction without metadata, and those with metadata
BlockTxs ==
  {[meta |-> FALSE, pre |-> NoRows, post |-> NoRows, order |-> <<0, 1>>]}
  \cup {[meta |-> TRUE, pre |-> p, post |-> q, order |-> o] :
          p \in [AcctIndices -> RowChoices], q \in [AcctIndices -> RowChoices],
          o \in {<<0, 1>>, <<1, 0>>}}

\* lines 46-58: the answer of getBlock
FilterStart ==
  /\ filt.pc = "idle"
  /\ \E blk \in {"err", "nil", "ok"}, n \in 0..MaxTxs :
       filt' = IF blk = "err" THEN [filt EXCEPT !.pc = "done", !.ret = "err"]
               ELSE IF blk = "nil" \/ n = 0 THEN [filt EXCEPT !.pc = "done", !.ret = "ok"]
               ELSE [filt EXCEPT !.pc = "loop", !.ntx = n]
  /\ UNCHANGED <<ovars, env, gvars, svars, agg, http, parse, yvars>>

FilterNext ==
  /\ filt.pc = "loop"
  /\ \E tx \in BlockTxs : \E ft \in {FilterTx(tx, TargetMint)} :
       filt' = [filt EXCEPT !.tx = tx, !.ft = ft, !.done = filt.done + 1,
                            !.nout = filt.nout + (IF ft.kept THEN 1 ELSE 0),
                            !.pc = IF filt.done + 1 = filt.ntx THEN "done" ELSE "loop",
                            !.ret = IF filt.done + 1 = filt.ntx THEN "ok" ELSE "none"]
  /\ UNCHANGED <<ovars, env, gvars, svars, agg, http, parse, yvars>>

InitFilter ==
  /\ OrchIdle /\ SlotIdle /\ ExtraIdle
  /\ env = <<"USDC", "USDT">>

NextFilter == FilterStart \/ FilterNext

SpecFilter == InitFilter /\ [][NextFilter]_vars

\* the account indices with a row of the target mint in the transaction of
\* the last iteration, and the delta of each: post - pre as numbers, a
\* missing side being 0
Touched == ByIdx(filt.tx.pre, TargetMint) \cup ByIdx(filt.tx.post, TargetMint)

SideValue(rows, i) ==
  IF rows[i] # NoRow /\ rows[i].mint = TargetMint THEN AmountTexts[rows[i].amt] ELSE 0

DeltaOf(i) == SideValue(filt.tx.post, i) - SideValue(filt.tx.pre, i)

RECURSIVE SumTouches(_)
SumTouches(ts) == IF ts = <<>> THEN 0 ELSE Head(ts).delta + SumTouches(Tail(ts))

\* C19: a transaction is kept iff some per-account delta of the target
\* mint is not zero, whatever the deltas sum to; the touches of a kept
\* transaction carry these deltas and TotalDelta is their sum.
C19_KeptIffSomeDeltaNonZero ==
  filt.done > 0 =>
    /\ filt.ft.kept = (filt.tx.meta /\ \E i \in Touched : DeltaOf(i) # 0)
    /\ filt.ft.kept =>
         /\ filt.ft.total = SumTouches(filt.ft.touches)
         /\ {t.idx : t \in {filt.ft.touches[k] : k \in 1..Len(filt.ft.touches)}} = Touched
         /\ \A k \in 1..Len(filt.ft.touches) :
              filt.ft.touches[k].delta = DeltaOf(filt.ft.touches[k].idx)

\* a kept transaction whose two deltas cancel
C19_Witness ==
  /\ filt.done > 0 /\ filt.ft.kept /\ filt.ft.total = 0
  /\ \E i \in Touched : DeltaOf(i) # 0

(***************************************************************************)
(* DetectLiquidityOp (liquidity_ops.go) and ParseTransaction (parser.go).  *)
(* An instruction is its program, the first byte of its data (-1: no       *)
(* data), whether the first 8 bytes are one of the add or remove anchor    *)
(* discriminators, and the number of swaps that the process function of    *)
(* its program extracts at it.                                             *)
(***************************************************************************)
MaxInsts == 2
MaxInner == 1

AMMPrograms ==
  {"PUMPFUN_AMM", "METEORA", "METEORA_POOLS", "METEORA_DLMM", "METEORA_DBC",
   "METEORA_DAMM_V2", "ORCA", "RAYDIUM_V4", "RAYDIUM_AMM", "RAYDIUM_CPMM",
   "RAYDIUM_CONCENTRATED_LIQUIDITY", "RAYDIUM_LAUNCHLAB"}

MeteoraPrograms ==
  {"METEORA_DLMM", "METEORA_DAMM_V2", "METEORA_DBC", "METEORA_POOLS", "METEORA"}

TokenPrograms == {"TOKEN", "TOKEN_2022"}

RouterPrograms == {"BANANA_GUN", "MINTECH", "BLOOM", "NOVA", "MAESTRO"}

RaydiumPrograms ==
  {"RAYDIUM_V4", "RAYDIUM_CPMM", "RAYDIUM_AMM", "RAYDIUM_CONCENTRATED_LIQUIDITY",
   "RAYDIUM_LAUNCHLAB", "AP51"}

tokenMintOps == {7, 14}
tokenBurnOps == {8, 15}

isAMMProgram(pk) == pk \in AMMPrograms

isTokenProgram(pk) == pk \in TokenPrograms

\* tokenOpcodeIfAny: [op, ok]
tokenOpcodeIfAny(inst) ==
  IF ~isTokenProgram(inst.prog) THEN [op |-> 0, ok |-> FALSE]
  ELSE IF inst.first = -1 THEN [op |-> 0, ok |-> FALSE]
  ELSE [op |-> inst.first, ok |-> TRUE]

HitsOpcode(inst, opSet) == tokenOpcodeIfAny(inst).ok /\ tokenOpcodeIfAny(inst).op \in opSet

Some(insts, P(_)) == \E k \in 1..Len(insts) : P(insts[k])

\* variant: only the outer instructions are searched
hasAnyTokenOpcodeOuter(tx, opSet) == Some(tx.outer, LAMBDA ix : HitsOpcode(ix, opSet))

hasAnyTokenOpcode(tx, opSet) ==
  \/ Some(tx.outer, LAMBDA ix : HitsOpcode(ix, opSet))
  \/ Some(tx.inner, LAMBDA ix : HitsOpcode(ix, opSet))

anyAMMProgramPresent(tx) ==
  \/ Some(tx.outer, LAMBDA ix : isAMMProgram(ix.prog))
  \/ Some(tx.inner, LAMBDA ix : isAMMProgram(ix.prog))

\* hasAnchorPrefix with ammOnly = true
hasAnchorPrefix(tx, kind) ==
  \/ Some(tx.outer, LAMBDA ix : isAMMProgram(ix.prog) /\ ix.anchor = kind)
  \/ Some(tx.inner, LAMBDA ix : isAMMProgram(ix.prog) /\ ix.anchor = kind)

hasMeteoraRemoveContext(tx) ==
  \/ Some(tx.outer, LAMBDA ix : ix.prog \in MeteoraPrograms)
  \/ Some(tx.inner, LAMBDA ix : ix.prog \in MeteoraPrograms)

DetectLiquidityOp(tx) ==
  IF ~anyAMMProgramPresent(tx) THEN "LiquidityNone"
  ELSE IF hasAnyTokenOpcode(tx, tokenBurnOps) THEN "LiquidityRemove"
  ELSE IF hasAnyTokenOpcode(tx, tokenMintOps) THEN "LiquidityAdd"
  ELSE IF hasAnchorPrefix(tx, "add") THEN "LiquidityAdd"
  ELSE IF hasAnchorPrefix(tx, "remove") THEN "LiquidityRemove"
  ELSE IF hasMeteoraRemoveContext(tx) THEN "LiquidityRemove"
  ELSE "LiquidityNone"

\* the function the first pass calls at an outer instruction, "" if none
FirstPassPath(ix) ==
  IF ix.prog = "JUPITER" THEN "processJupiterSwaps"
  ELSE IF ix.prog = "MOONSHOT" THEN "processMoonshotSwaps"
  ELSE IF ix.prog \in RouterPrograms THEN "processRouterSwaps"
  ELSE IF ix.prog = "OKX_DEX_ROUTER" THEN "processOKXSwaps"
  ELSE ""

\* the function the second pass calls at an outer instruction
SecondPassPath(ix) ==
  IF ix.prog \in RaydiumPrograms THEN "processRaydSwaps"
  ELSE IF ix.prog = "ORCA" THEN "processOrcaSwaps"
  ELSE IF ix.prog \in MeteoraPrograms THEN "processMeteoraSwaps"
  ELSE IF ix.prog = "PUMPFUN_AMM" THEN "processPumpfunAMMSwaps"
  ELSE IF ix.prog \in {"PUMP_FUN", "BSfD"} THEN "processPumpfunSwaps"
  ELSE ""

PathsRun(insts, Path(_)) ==
  SelectSeq([k \in 1..Len(insts) |-> Path(insts[k])], LAMBDA x : x # "")

SwapsFound(insts, Path(_)) ==
  SumInts({k \in 1..Len(insts) : Path(insts[k]) # ""},
          [k \in 1..Len(insts) |-> insts[k].swaps])

\* skip: something was parsed under Jupiter, Moonshot or OKX
SkipSecondPass(outer) ==
  Some(outer, LAMBDA ix : ix.prog \in {"JUPITER", "MOONSHOT", "OKX_DEX_ROUTER"} /\ ix.swaps > 0)

\* ParseTransaction: [op, ran, swaps, ret]; ran lists the process functions
\* called, swaps counts the swap data returned
ParseTransaction(tx) ==
  LET op == DetectLiquidityOp(tx)
      ran1 == PathsRun(tx.outer, FirstPassPath)
      n1 == SwapsFound(tx.outer, FirstPassPath)
  IN  IF op \in {"LiquidityAdd", "LiquidityRemove"}
      THEN [op |-> op, ran |-> <<>>, swaps |-> 0, ret |-> "nil"]
      ELSE IF SkipSecondPass(tx.outer)
      THEN [op |-> op, ran |-> ran1, swaps |-> n1, ret |-> "swaps"]
      ELSE [op |-> op, ran |-> ran1 \o PathsRun(tx.outer, SecondPassPath),
            swaps |-> n1 + SwapsFound(tx.outer, SecondPassPath), ret |-> "swaps"]

Inst(prog, first, anchor, swaps) ==
  [prog |-> prog, first |-> first, anchor |-> anchor, swaps |-> swaps]

\* token instructions: MintTo, MintToChecked, Burn, BurnChecked, Transfer
\* and one without data; AMM, aggregator and router instructions; an
\* instruction of another program whose data starts with 7
InstChoices ==
  {Inst("TOKEN", b, "none", 0) : b \in tokenMintOps \cup tokenBurnOps \cup {3, -1}}
  \cup {Inst("RAYDIUM_V4", 9, "none", 1), Inst("RAYDIUM_V4", 0, "add", 0),
         Inst("RAYDIUM_V4", 0, "remove", 0), Inst("METEORA_DLMM", 0, "none", 1),
         Inst("JUPITER", 0, "none", 1), Inst("JUPITER", 0, "none", 0),
         Inst("BANANA_GUN", 0, "none", 1), Inst("OTHER", 7, "none", 0)}

InitParse ==
  /\ OrchIdle /\ SlotIdle /\ SearchIdle
  /\ env = <<"USDC", "USDT">>
  /\ agg = AggIdle /\ http = HttpIdle /\ filt = FiltIdle /\ MoreIdle
  /\ \E n \in 0..MaxInsts, m \in 0..MaxInner :
       \E outer \in [1..n -> InstChoices], inner \in [1..m -> InstChoices] :
         parse = [pc |-> "call", tx |-> [outer |-> outer, inner |-> inner], out |-> NoParse]

CallParse ==
  /\ parse.pc = "call"
  /\ parse' = [parse EXCEPT !.pc = "done", !.out = ParseTransaction(parse.tx)]
  /\ UNCHANGED <<ovars, env, gvars, svars, agg, http, filt, yvars>>

NextParse == CallParse

SpecParse == InitParse /\ [][NextParse]_vars

\* all instructions of the transaction, outer then inner
AllInsts == parse.tx.outer \o parse.tx.inner

HasAMMInst == \E k \in 1..Len(AllInsts) : AllInsts[k].prog \in AMMPrograms

HasMintOrBurn ==
  \E k \in 1..Len(AllInsts) :
    AllInsts[k].prog \in TokenPrograms /\ AllInsts[k].first \in {7, 14, 8, 15}

\* C20: a transaction with an instruction of an AMM program and a token
\* instruction with opcode 7, 14, 8 or 15, outer or inner, is classified as
\* a liquidity operation; ParseTransaction returns no swap data for it and
\* calls none of the aggregator, router or AMM extraction functions.
C20_LiquidityTxHasNoSwaps ==
  (parse.pc = "done" /\ HasAMMInst /\ HasMintOrBurn) =>
    /\ parse.out.op \in {"LiquidityAdd", "LiquidityRemove"}
    /\ parse.out.ret = "nil" /\ parse.out.swaps = 0 /\ parse.out.ran = <<>>

\* an inner mint or burn under an AMM swap instruction, in a transaction
\* that also holds a Jupiter instruction with a swap to extract
C20_Witness ==
  /\ parse.pc = "done" /\ HasAMMInst /\ parse.out.ret = "nil"
  /\ \E k \in 1..Len(parse.tx.inner) :
       parse.tx.inner[k].prog \in TokenPrograms /\ parse.tx.inner[k].first \in {7, 14, 8, 15}
  /\ \E k \in 1..Len(parse.tx.outer) :
       parse.tx.outer[k].prog = "JUPITER" /\ parse.tx.outer[k].swaps > 0
  /\ \A k \in 1..Len(parse.tx.outer) : parse.tx.outer[k].anchor = "none"

(***************************************************************************)
(* Holder counter (package holder): CountHoldersForMint scans the classic  *)
(* token program, then Token-2022; countForProgram is the retry loop of    *)
(* one scan.  Times are whole milliseconds.  hold.elapsed is the time      *)
(* since the start of the current scan, hold.spent the time the earlier    *)
(* scan of the same call took, hold.slept the last wait.                   *)
(***************************************************************************)
MaxAttempts == 9

InitialBackoff == 250
maxBackoff == 30000
RetryWindow == 3600000

\* phrases an RPC error text may contain, lower-cased as containsAny does
RateLimitPhrases == {"rate limit", "rate-limited", "429", "too many requests", "retry later"}

ScanErrors ==
  {{"429", "too many requests"}, {"rate limit"}, {"retry later"}, {"server busy"},
   {"method not found"}, {}}

isRateLimited(err) == err \cap RateLimitPhrases # {}

\* how long one getProgramAccounts request takes
CallDurations == {0, 1200000, 1199900}

\* rand.Int63n(int64(backoff / 3)), its smallest and its largest value
Jitters(backoff) == {0, (backoff \div 3) - 1}

NextBackoff(backoff) ==
  IF backoff < maxBackoff
  THEN (IF backoff * 2 > maxBackoff THEN maxBackoff ELSE backoff * 2)
  ELSE backoff

BeginScan(h, prog) ==
  [h EXCEPT !.pc = "scan", !.prog = prog, !.backoff = InitialBackoff,
            !.spent = h.spent + h.elapsed, !.elapsed = 0, !.retries = 0,
            !.lastErr = "nil", !.slept = 0]

HoldReturn(h, ret) == [h EXCEPT !.pc = "done", !.ret = ret]

\* CountHoldersForMint after a scan that returned without error
AfterScan(h, total) ==
  IF total > 0 THEN HoldReturn(h, "result")
  ELSE IF h.prog = "Token" THEN BeginScan(h, "Token2022")
  ELSE HoldReturn(h, "empty")

\* one request of countForProgram: it takes d, and answers total accounts
\* (ok) or the error err; the request is cut at the deadline of ctx
ScanRequest(h, d, ok, err, total) ==
  LET cut == h.elapsed + d > RetryWindow
      at == IF cut THEN RetryWindow ELSE h.elapsed + d
      g == [h EXCEPT !.elapsed = at, !.attempts = h.attempts + 1]
  IN  IF cut THEN HoldReturn([g EXCEPT !.lastErr = "other"], "scan error")
      ELSE IF ok THEN AfterScan([g EXCEPT !.lastErr = "nil"], total)
      ELSE IF ~isRateLimited(err)
        THEN HoldReturn([g EXCEPT !.lastErr = "other"], "scan error")
      ELSE IF at >= RetryWindow
        THEN HoldReturn([g EXCEPT !.lastErr = "rate limit"], "rate-limited for 60m")
      ELSE [g EXCEPT !.lastErr = "rate limit", !.pc = "sleep"]

\* the wait after a rate-limit error: backoff + jitter, or the deadline
SleepOrDone(h, jitter) ==
  LET sleep == h.backoff + jitter
  IN  IF h.elapsed + sleep > RetryWindow
      THEN HoldReturn([h EXCEPT !.slept = RetryWindow - h.elapsed,
                                !.elapsed = RetryWindow], "context done")
      ELSE [h EXCEPT !.pc = "scan", !.slept = sleep, !.elapsed = h.elapsed + sleep,
                     !.retries = h.retries + 1, !.backoff = NextBackoff(h.backoff)]

HoldStart ==
  /\ hold.pc = "idle"
  /\ \E setup \in {"ok", "invalid mint", "env unset"} :
       hold' = IF setup = "ok" THEN BeginScan(hold, "Token")
               ELSE HoldReturn(hold, setup)
  /\ UNCHANGED holdFrame

ScanAttempt ==
  /\ hold.pc = "scan"
  /\ \E d \in CallDurations, ok \in BOOLEAN, err \in ScanErrors, total \in {0, 2} :
       /\ (~ok /\ isRateLimited(err)) => hold.attempts + 1 < MaxAttempts
       /\ hold' = ScanRequest(hold, d, ok, err, total)
  /\ UNCHANGED holdFrame

BackoffSleep ==
  /\ hold.pc = "sleep"
  /\ \E jitter \in Jitters(hold.backoff) : hold' = SleepOrDone(hold, jitter)
  /\ UNCHANGED holdFrame

InitHolder == OrchIdle /\ SlotIdle /\ ExtraIdle /\ env = <<"USDC", "USDT">>

NextHolder == HoldStart \/ ScanAttempt \/ BackoffSleep

SpecHolder == InitHolder /\ [][NextHolder]_vars

\* backoff after n waits of one scan
BackoffAfter(n) ==
  IF n >= 7 THEN maxBackoff ELSE InitialBackoff * (2 ^ n)

\* a request is repeated only after a rate-limit error, and every other
\* error ends the call
RepeatsOnlyAfterRateLimit ==
  /\ hold.pc = "sleep" => hold.lastErr = "rate limit"
  /\ (hold.pc = "scan" /\ hold.retries > 0) => hold.lastErr = "rate limit"
  /\ hold.lastErr = "other" => (hold.pc = "done" /\ hold.ret = "scan error")

\* the waits: 250 ms doubling up to 30 s, plus a jitter below a third
WaitsDoubleToCap ==
  /\ hold.pc \in {"scan", "sleep"} => hold.backoff = BackoffAfter(hold.retries)
  /\ (hold.pc = "scan" /\ hold.retries > 0) =>
       LET b == BackoffAfter(hold.retries - 1)
       IN  hold.slept >= b /\ hold.slept * 3 < b * 4

\* C21: the holder counter repeats the program-accounts scan only after a
\* rate-limit-shaped error, waits a backoff that starts at 250 ms and
\* doubles up to 30 s, spends at most 60 minutes in total, and returns any
\* other error at once.
C21_RetriesRateLimitsForSixtyMinutes ==
  /\ RepeatsOnlyAfterRateLimit
  /\ WaitsDoubleToCap
  /\ hold.spent + hold.elapsed <= RetryWindow

(***************************************************************************)
(* Direction of a swap whose one side is wrapped SOL (parser.go).          *)
(* swap.tx holds what lamportDeltaFor reads: whether the transaction has a *)
(* meta, the account keys of its message and the lamport balances before   *)
(* and after; swap.data is the decoded swap data, its deltaOK and delta    *)
(* fields are filled from lamportDeltaFor by the call.                     *)
(***************************************************************************)
\* Parser.lamportDeltaFor(pub).  Lamport balances are below 2^63 (the supply
\* of SOL is), so int64(post) and int64(pre) are the balances themselves.
lamportDeltaFor(tx, pub) ==
  LET found == {i \in 1..Len(tx.keys) : tx.keys[i] = pub}
      idx == CHOOSE i \in found : \A j \in found : i <= j
  IN  IF ~tx.meta THEN NoDelta
      ELSE IF found = {} THEN NoDelta
      ELSE IF idx > Len(tx.pre) \/ idx > Len(tx.post) THEN NoDelta
      ELSE [deltaOK |-> TRUE, delta |-> tx.post[idx] - tx.pre[idx]]

\* the lamport balances of a transaction with the keys <<payer, signer>>
Balances == {0, 5000, OneSOL}

SwapTxs ==
  {[meta |-> FALSE, keys |-> <<"payer", Signer>>, pre |-> <<0, 0>>, post |-> <<0, OneSOL>>],
   [meta |-> TRUE, keys |-> <<"payer">>, pre |-> <<0>>, post |-> <<OneSOL>>],
   [meta |-> TRUE, keys |-> <<"payer", Signer>>, pre |-> <<0>>, post |-> <<0, OneSOL>>],
   [meta |-> TRUE, keys |-> <<"payer", Signer>>, pre |-> <<0, 0>>, post |-> <<OneSOL>>]}
  \cup {[meta |-> TRUE, keys |-> <<"payer", Signer>>, pre |-> <<OneSOL, a>>,
         post |-> <<0, b>>] : a \in Balances, b \in Balances}

\* decoded swap data with wrapped SOL on one side, on both or on none
SwapInputs ==
  SolSwapData \cup {SolSale1, StableSale, NoSwapData,
    Event("So11", OneSOL, 9, "So11", HalfSOL, 9),
    Event("So11", HalfSOL, 8, "Xmnt", 7, 0),
    Legs(<<Transfer("Tgt", "Tgt", 10, 1, Signer, "c", "d"),
           Transfer("", "So11", HalfSOL, 9, "pool", "a", "b")>>, FALSE, 0),
    Legs(<<Transfer("Tgt", "Tgt", 10, 1, "pool", "c", "d"),
           Transfer("So11", "", HalfSOL, 9, Signer, "a", "b"),
           Transfer("So11", "", OneSOL, 9, "pool", "e", "f")>>, FALSE, 0),
    Legs(<<Transfer("", "So11", HalfSOL, 0, "pool", "a", "b"),
           Transfer("USDC", "", OneUSD, 6, "pool", "c", "d"),
           Transfer("Tgt", "Tgt", 10, 1, Signer, "c", "d")>>, FALSE, 0),
    Legs(<<Transfer("", "", 10, 1, Signer, "c", "d"),
           Transfer("", "So11", HalfSOL, 9, "pool", "a", "b")>>, FALSE, 0),
    Legs(<<Transfer("Tgt", "Tgt", 10, 1, Signer, "c", "d"),
           Transfer("USDC", "", OneUSD, 6, "pool", "a", "b")>>, FALSE, 0)}

\* the swap data with the signer's lamport delta of the transaction
WithDelta(data, tx) ==
  IF data.kind = "noSwapData" THEN data
  ELSE LET d == lamportDeltaFor(tx, Signer)
       IN  [data EXCEPT !.deltaOK = d.deltaOK, !.delta = d.delta]

InitSwap ==
  /\ swapAlone /\ env = <<"USDC", "USDT">>
  /\ \E data \in SwapInputs, tx \in SwapTxs :
       swap = [pc |-> "call", data |-> data, tx |-> tx, out |-> SwapErr]

CallSwap ==
  /\ swap.pc = "call"
  /\ swap' = [swap EXCEPT !.pc = "done",
                          !.out = ProcessSwapData(WithDelta(swap.data, swap.tx))]
  /\ UNCHANGED swapFrame

NextSwap == CallSwap

SpecSwap == InitSwap /\ [][NextSwap]_vars

\* the signer's lamport delta, post - pre, when both balances are there
SignerDelta ==
  IF /\ swap.tx.meta /\ Len(swap.tx.keys) >= 2
     /\ Len(swap.tx.pre) >= 2 /\ Len(swap.tx.post) >= 2
  THEN [deltaOK |-> TRUE, delta |-> swap.tx.post[2] - swap.tx.pre[2]]
  ELSE NoDelta

\* what the synthesis path makes of the data when it knows no delta
Synthesized == ProcessSwapData([swap.data EXCEPT !.deltaOK = FALSE, !.delta = 0])

OneSideSOL(si) == (si.inMint = WrappedSOL) # (si.outMint = WrappedSOL)

\* amount and decimals of wrapped SOL in the data
SolAmount ==
  IF swap.data.kind = "legs" THEN TotalsPerMint(swap.data.legs, WrappedSOL)
  ELSE IF swap.data.inMint = WrappedSOL THEN swap.data.inAmt ELSE swap.data.outAmt

SolDecimals ==
  IF swap.data.kind = "legs" THEN 9
  ELSE IF swap.data.inMint = WrappedSOL THEN swap.data.inDec ELSE swap.data.outDec

\* C22: for every swap returned by ProcessSwapData with wrapped SOL on one
\* side: when the signer's lamport delta is resolved and > 0, wrapped SOL
\* is the token-out side with its own amount and decimals; when the delta
\* is <= 0 or not resolved, the order of the synthesis path is unchanged.
C22_PositiveDeltaPutsSolOut ==
  (swap.pc = "done" /\ swap.out.st = "ok" /\ OneSideSOL(swap.out)) =>
    IF SignerDelta.deltaOK /\ SignerDelta.delta > 0
    THEN /\ swap.out.outMint = WrappedSOL
         /\ swap.out.outAmt = SolAmount
         /\ swap.out.outDec = SolDecimals
    ELSE swap.out = Synthesized

\* a swap that the synthesis path built with wrapped SOL as token-in and
\* that is returned with wrapped SOL as token-out
C22_Witness ==
  /\ swap.pc = "done" /\ swap.out.st = "ok" /\ Synthesized.st = "ok"
  /\ SignerDelta.deltaOK /\ SignerDelta.delta > 0
  /\ Synthesized.inMint = WrappedSOL /\ swap.out.outMint = WrappedSOL
  /\ swap.out.inMint # WrappedSOL

(***************************************************************************)
(* SlotAtClosest: the end of the bisection, checked under SpecClosest.     *)
(***************************************************************************)
\* the bisection stops for want of budget with the bracket still open
BudgetOutMidBisection ==
  /\ sc.pc = "binary" /\ sc.iter > 0 /\ sc.maxProbes <= 0
  /\ sc.lo + 1 < sc.hi /\ sc.iter < MaxIter

\* the bracket endpoints for which a probe obtained a block time
KnownEnds == {sc.lo, sc.hi} \cap ProbedKnown

\* C23: when the probe budget runs out during bisection, the slot returned
\* is the bracket endpoint with a known block time that is closest to the
\* target; an endpoint whose block time was never obtained is returned
\* neither as best nor as tie and does not decide the comparison.
C23_BudgetOutReturnsCloserKnownEnd ==
  [][BudgetOutMidBisection =>
       /\ sres'.st = "ok"
       /\ sres'.best \in KnownEnds
       /\ \A e \in KnownEnds : ProbeDist(e) >= ProbeDist(sres'.best)
       /\ sres'.tie # -1 => sres'.tie \in KnownEnds]_vars

(***************************************************************************)
(* VWAPWithLogFence called with any finite values, positive or not.        *)
(***************************************************************************)
AnyValues == AggValues \cup {RZero, <<-1, 1>>}

InitVWAPAny ==
  /\ OrchIdle /\ SlotIdle /\ SearchIdle
  /\ env = <<"USDC", "USDT">>
  /\ http = HttpIdle /\ filt = FiltIdle /\ parse = ParseIdle /\ MoreIdle
  /\ \E n \in 0..MaxEntries :
       \E vs \in [1..n -> AnyValues], ws \in [1..n -> AggWeights], r \in AggFences :
         agg = [pc |-> "call", values |-> vs, weights |-> ws, r |-> r,
                minWeight |-> DefaultMinWUSD, out |-> VWAPFail]

SpecVWAPAny == InitVWAPAny /\ [][NextVWAP]_vars

\* the entries of the call whose value is positive
AggPositive == {i \in 1..Len(agg.values) : RPos(agg.values[i])}

\* C24: entries with value <= 0 are dropped before the median is taken, so
\* the call returns what it returns for the entries with a positive value
\* alone: non-positive values change none of vwap, keptCount, sumW and ok.
C24_NonPositiveValuesChangeNothing ==
  agg.pc = "done" =>
    agg.out = VWAPWithLogFence(SeqOfSet(AggPositive, agg.values),
                               SeqOfSet(AggPositive, agg.weights), agg.r, agg.minWeight)

(***************************************************************************)
(* parseJupiterEvents (event_jupiter.go).  Amounts are unsigned words of   *)
(* AmountBits bits, a scaled stand-in for uint64: sums wrap and int64(x)   *)
(* is the two's-complement reading.  Mints are numbered in the order of    *)
(* their base58 texts.  order is the order in which the range over the map *)
(* perMint yields the mints; sort.Slice on fewer than 12 rows is an        *)
(* insertion sort, so rows with equal net keep that order.                 *)
(***************************************************************************)
AmountBits == 4
MaxEvents == 2

Word == 2 ^ AmountBits
Wrap(x) == x % Word
ToSigned(x) == IF x >= Word \div 2 THEN x - Word ELSE x

JupMints == 1..3

MintsOf(events) ==
  {events[k].inMint : k \in 1..Len(events)} \cup {events[k].outMint : k \in 1..Len(events)}

InTotal(events, m) ==
  SumInts({k \in 1..Len(events) : events[k].inMint = m},
          [k \in 1..Len(events) |-> events[k].inAmt])

OutTotal(events, m) ==
  SumInts({k \in 1..Len(events) : events[k].outMint = m},
          [k \in 1..Len(events) |-> events[k].outAmt])

\* perMint[m].inSum and perMint[m].outSum
inSum(events, m) == Wrap(InTotal(events, m))
outSum(events, m) == Wrap(OutTotal(events, m))

\* net: int64(a.outSum) - int64(a.inSum)
NetOf(events, m) ==
  ToSigned(Wrap(ToSigned(outSum(events, m)) - ToSigned(inSum(events, m))))

\* rows[0] after a sort of the rows by Better
FirstBy(rows, Better(_, _)) ==
  rows[CHOOSE i \in 1..Len(rows) :
         /\ \A j \in 1..Len(rows) : ~Better(rows[j], rows[i])
         /\ \A j \in 1..(i - 1) : Better(rows[i], rows[j])]

JupErr(msg) == [st |-> msg, inMint |-> 0, inAmt |-> 0, outMint |-> 0, outAmt |-> 0]

parseJupiterEvents(events, order) ==
  LET mints == MintsOf(events)
      rows == SelectSeq(order, LAMBDA m : m \in mints)
      outRow == FirstBy(rows, LAMBDA a, b : NetOf(events, a) > NetOf(events, b))
      inRow == FirstBy(rows, LAMBDA a, b : NetOf(events, a) < NetOf(events, b))
      lowName == CHOOSE m \in mints : \A x \in mints : m <= x
      highName == CHOOSE m \in mints : \A x \in mints : m >= x
  IN  IF Len(events) = 0 THEN JupErr("no events provided")
      ELSE IF Cardinality(mints) < 2 THEN JupErr("not enough distinct mints")
      ELSE IF inRow = outRow
      THEN [st |-> "ok", inMint |-> lowName, inAmt |-> inSum(events, lowName),
            outMint |-> highName, outAmt |-> outSum(events, highName)]
      ELSE [st |-> "ok", inMint |-> inRow, inAmt |-> inSum(events, inRow),
            outMint |-> outRow, outAmt |-> outSum(events, outRow)]

\* amounts across the range of the word
JupAmounts == {1, 2, (Word \div 2) - 1, (Word \div 2) + 1, Word - 1}

JupEvents ==
  [inMint : JupMints, inAmt : JupAmounts, outMint : JupMints, outAmt : JupAmounts]

MapOrders == {o \in [1..3 -> JupMints] : \A i, j \in 1..3 : o[i] = o[j] => i = j}

InitJup ==
  /\ jupAlone /\ env = <<"USDC", "USDT">>
  /\ \E n \in 0..MaxEvents : \E events \in [1..n -> JupEvents] :
       jup = [pc |-> "call", events |-> events, order |-> <<>>, out |-> JupErr("none")]

CallJup ==
  /\ jup.pc = "call"
  /\ \E order \in MapOrders :
       jup' = [jup EXCEPT !.pc = "done", !.order = order,
                          !.out = parseJupiterEvents(jup.events, order)]
  /\ UNCHANGED jupFrame

NextJup == CallJup

SpecJup == InitJup /\ [][NextJup]_vars

\* net flow of a mint over the events, outSum - inSum
TrueNet(m) == OutTotal(jup.events, m) - InTotal(jup.events, m)

Reversed(q) == [k \in 1..Len(q) |-> q[Len(q) + 1 - k]]

\* C25: for Jupiter route events with at least two distinct mints and any
\* amounts of the word, token-in is a mint with the most negative net
\* outSum - inSum, token-out a mint with the most positive net, the amounts
\* are that mint's inSum and outSum, the two mints differ, and the result
\* does not depend on the order in which the events or the mints are
\* processed.
C25_NetFlowPicksInAndOut ==
  (jup.pc = "done" /\ Cardinality(MintsOf(jup.events)) >= 2) =>
    /\ jup.out.st = "ok"
    /\ \A m \in MintsOf(jup.events) :
         TrueNet(jup.out.inMint) <= TrueNet(m) /\ TrueNet(m) <= TrueNet(jup.out.outMint)
    /\ jup.out.inAmt = InTotal(jup.events, jup.out.inMint)
    /\ jup.out.outAmt = OutTotal(jup.events, jup.out.outMint)
    /\ jup.out.inMint # jup.out.outMint
    /\ \A order \in MapOrders :
         /\ parseJupiterEvents(jup.events, order) = jup.out
         /\ parseJupiterEvents(Reversed(jup.events), order) = jup.out

(***************************************************************************)
(* Preprocessing of a transaction by the parser: extractSPLTokenInfo       *)
(* (parse_transfer.go), extractSPLDecimals (event_jupiter.go) and the tests *)
(* isTransfer and isTransferCheck that decide which inner instructions are  *)
(* collected as legs.  An instruction is its program, the length of its    *)
(* data, its first data byte (op) and the keys of its accounts; account    *)
(* indices are valid.  Token accounts are "a", "b", "c", all of the mint   *)
(* "Mint1".  A map from keys to mint texts has "" where Go's map has no    *)
(* entry or an entry with an empty mint.                                   *)
(***************************************************************************)
MaxPrepInsts == 2

PrepKeys == {"a", "b", "c", "Mint1", "auth"}

TInst(prog, len, op, accts) == [prog |-> prog, len |-> len, op |-> op, accts |-> accts]

PlainTransfer(prog, src, dst) == TInst(prog, 9, 3, <<src, dst, "auth">>)

CheckedTransfer(prog, src, dst) == TInst(prog, 10, 12, <<src, "Mint1", dst, "auth">>)

isTransferCheck(instr) ==
  /\ isTokenProgram(instr.prog)
  /\ ~(Len(instr.accts) < 4 \/ instr.len < 9)
  /\ instr.op = 12

isTransfer(instr) ==
  /\ instr.prog = "TOKEN"
  /\ ~(Len(instr.accts) < 3 \/ instr.len < 9)
  /\ instr.op = 3

\* processRaydSwaps: the inner instructions collected as legs
CollectedLegs(inner) == SelectSeq(inner, LAMBDA i : isTransfer(i) \/ isTransferCheck(i))

\* extractSPLTokenInfo, the backfill of a plain transfer
Propagate(info, source, destination) ==
  IF info[source] # "" /\ info[destination] = ""
  THEN [info EXCEPT ![destination] = info[source]]
  ELSE IF info[destination] # "" /\ info[source] = ""
  THEN [info EXCEPT ![source] = info[destination]]
  ELSE info

\* extractSPLTokenInfo, the backfill of a TransferChecked
BackfillChecked(info, source, destination, mint) ==
  LET i1 == IF info[source] = "" THEN [info EXCEPT ![source] = mint] ELSE info
  IN  IF i1[destination] = "" THEN [i1 EXCEPT ![destination] = mint] ELSE i1

\* extractSPLTokenInfo.processInstruction
processInstructionInfo(info, instr) ==
  IF ~isTokenProgram(instr.prog) THEN info
  ELSE IF instr.len = 0 THEN info
  ELSE IF Len(instr.accts) < 2 THEN info
  ELSE LET source == instr.accts[1]
           destination == instr.accts[2]
           i1 == IF instr.op = 12 /\ Len(instr.accts) >= 3
                 THEN BackfillChecked(info, source, destination, instr.accts[2])
                 ELSE info
       IN  IF instr.op = 3 THEN Propagate(i1, source, destination) ELSE i1

RECURSIVE InfoOver(_, _)
InfoOver(info, insts) ==
  IF insts = <<>> THEN info
  ELSE InfoOver(processInstructionInfo(info, Head(insts)), Tail(insts))

\* the seeds: the token balances with a non-zero mint, pre then post
RECURSIVE SeedInfo(_, _)
SeedInfo(info, balances) ==
  IF balances = <<>> THEN info
  ELSE SeedInfo(IF Head(balances).mint # ""
                THEN [info EXCEPT ![Head(balances).acct] = Head(balances).mint]
                ELSE info, Tail(balances))

extractSPLTokenInfo(tx) ==
  InfoOver(SeedInfo(SeedInfo([k \in PrepKeys |-> ""], tx.pre), tx.post),
           tx.outer \o tx.inner)

\* extractSPLDecimals.processInstruction: decs is the set of the keys of
\* the map mintToDecimals
processInstructionDecimals(decs, instr) ==
  IF instr.prog # "TOKEN" THEN decs
  ELSE IF instr.len = 0 \/ (instr.op # 3 /\ instr.op # 12) THEN decs
  ELSE IF Len(instr.accts) < 3 THEN decs
  ELSE decs \cup {instr.accts[2]}

RECURSIVE DecimalsOver(_, _)
DecimalsOver(decs, insts) ==
  IF insts = <<>> THEN decs
  ELSE DecimalsOver(processInstructionDecimals(decs, Head(insts)), Tail(insts))

extractSPLDecimals(tx) ==
  DecimalsOver({tx.post[k].mint : k \in {j \in 1..Len(tx.post) : tx.post[j].mint # ""}},
               tx.outer \o tx.inner) \cup {WrappedSOL}

PrepInsts ==
  {PlainTransfer(p, "a", "b") : p \in TokenPrograms}
  \cup {PlainTransfer(p, "b", "c") : p \in TokenPrograms}
  \cup {CheckedTransfer(p, "c", "a") : p \in TokenPrograms}
  \cup {PlainTransfer("OTHER", "a", "b"), TInst("TOKEN", 1, 3, <<"a", "b", "auth">>),
        TInst("TOKEN", 0, -1, <<"a", "b">>)}

Balance(acct, mint) == [acct |-> acct, mint |-> mint]

PrepBalances ==
  {<<>>, <<Balance("a", "Mint1")>>, <<Balance("c", "Mint1")>>, <<Balance("b", "")>>,
   <<Balance("a", "Mint1"), Balance("c", "Mint1")>>}

InitPrep ==
  /\ prepAlone /\ env = <<"USDC", "USDT">>
  /\ \E n \in 0..MaxPrepInsts, m \in 0..MaxPrepInsts :
       \E outer \in [1..n -> PrepInsts], inner \in [1..m -> PrepInsts],
          pre \in {<<>>, <<Balance("a", "Mint1")>>}, post \in PrepBalances :
         prep = [pc |-> "call",
                 tx |-> [pre |-> pre, post |-> post, outer |-> outer, inner |-> inner],
                 info |-> [k \in PrepKeys |-> ""], decs |-> {}, legs |-> <<>>]

CallPrep ==
  /\ prep.pc = "call"
  /\ prep' = [prep EXCEPT !.pc = "done", !.info = extractSPLTokenInfo(prep.tx),
                          !.decs = extractSPLDecimals(prep.tx),
                          !.legs = CollectedLegs(prep.tx.inner)]
  /\ UNCHANGED prepFrame

NextPrep == CallPrep

SpecPrep == InitPrep /\ [][NextPrep]_vars

PrepAll == prep.tx.outer \o prep.tx.inner

\* C26: after the preprocessing, for every plain transfer (opcode 3) among
\* the outer and inner instructions for which the mint of the source or of
\* the destination account is known, both accounts are mapped to that same
\* mint, wherever the instructions stand in the transaction.
C26_PlainTransferSidesShareMint ==
  prep.pc = "done" =>
    \A k \in 1..Len(PrepAll) :
      LET i == PrepAll[k]
      IN  (isTokenProgram(i.prog) /\ i.len > 0 /\ i.op = 3 /\ Len(i.accts) >= 2
             /\ (prep.info[i.accts[1]] # "" \/ prep.info[i.accts[2]] # ""))
            => prep.info[i.accts[1]] = prep.info[i.accts[2]]

\* a transfer of either token program with its accounts and 8 amount bytes
WellFormedTransfer(i) ==
  /\ isTokenProgram(i.prog) /\ i.len >= 9
  /\ (i.op = 3 /\ Len(i.accts) >= 3) \/ (i.op = 12 /\ Len(i.accts) >= 4)

\* C27: a plain transfer (opcode 3) or a transfer-checked (opcode 12) of
\* the Token-2022 program is handled like one of the classic program: among
\* the inner instructions it is collected as a leg, and anywhere in the
\* transaction it feeds the mint-to-decimals map.
C27_Token2022HandledLikeClassic ==
  prep.pc = "done" =>
    /\ \A k \in 1..Len(prep.tx.inner) :
         WellFormedTransfer(prep.tx.inner[k]) =>
           \E j \in 1..Len(prep.legs) : prep.legs[j] = prep.tx.inner[k]
    /\ \A k \in 1..Len(PrepAll) :
         WellFormedTransfer(PrepAll[k]) => PrepAll[k].accts[2] \in prep.decs

(***************************************************************************)
(* minuteFloor (price_at_time.go).  Go's / on integers truncates toward    *)
(* zero, while \div rounds toward minus infinity: GoQuo is Go's quotient.  *)
(* The timestamps tried are a few minutes either side of the epoch, with   *)
(* offsets at, next to and inside the minute boundaries.                   *)
(***************************************************************************)
oneMinMs == 60000

MaxMinutes == 3

GoQuo(a, b) == IF a >= 0 THEN a \div b ELSE -((-a) \div b)

minuteFloor(ms) == GoQuo(ms, oneMinMs) * oneMinMs

MinuteOffsets == {0, 1, 999, 29999, 30000, 59000, 59999}

MinuteInputs == {k * oneMinMs + r : k \in (-MaxMinutes)..MaxMinutes, r \in MinuteOffsets}

InitFloor ==
  /\ floorAlone /\ env = <<"USDC", "USDT">>
  /\ \E ms \in MinuteInputs : floor = [pc |-> "call", ms |-> ms, out |-> 0, again |-> 0]

CallFloor ==
  /\ floor.pc = "call"
  /\ floor' = [floor EXCEPT !.pc = "once", !.out = minuteFloor(floor.ms)]
  /\ UNCHANGED floorFrame

CallFloorAgain ==
  /\ floor.pc = "once"
  /\ floor' = [floor EXCEPT !.pc = "twice", !.again = minuteFloor(floor.out)]
  /\ UNCHANGED floorFrame

NextFloor == CallFloor \/ CallFloorAgain

SpecFloor == InitFloor /\ [][NextFloor]_vars

\* C28: for every millisecond timestamp ms, negative ones included,
\* minuteFloor(ms) <= ms < minuteFloor(ms) + 60000, minuteFloor(ms) is a
\* multiple of 60000, and minuteFloor(minuteFloor(ms)) = minuteFloor(ms).
C28_MinuteFloorBracketsEveryMs ==
  /\ floor.pc \in {"once", "twice"} =>
       /\ floor.out <= floor.ms
       /\ floor.ms < floor.out + oneMinMs
       /\ floor.out % oneMinMs = 0
  /\ floor.pc = "twice" => floor.again = floor.out

(***************************************************************************)
(* solUSDCacher.getAtUnix called by several goroutines on one cache        *)
(* (price.go).  Each caller runs the method once for its minute; a step is *)
(* one of its lock, unlock or fetch operations.  mu is the caller holding  *)
(* the mutex, or 0.  The price of a minute is the same for every fetch.    *)
(***************************************************************************)
NumCallers == 2

Callers == 1..NumCallers

CacheMinutes == {60, 120}

PriceAt(minute) == 100 + minute

\* c.mu.Lock() at the entry
LockForLookup(c) ==
  /\ conc.pc[c] = "enter" /\ conc.mu = 0
  /\ conc' = [conc EXCEPT !.mu = c, !.pc[c] = "lookup"]
  /\ UNCHANGED concFrame

\* the lookup of the minute and c.mu.Unlock() on either branch
LookupAndUnlock(c) ==
  /\ conc.pc[c] = "lookup" /\ conc.mu = c
  /\ IF conc.minute[c] \in DOMAIN conc.m
     THEN conc' = [conc EXCEPT !.mu = 0, !.pc[c] = "done",
                               !.ret[c] = conc.m[conc.minute[c]]]
     ELSE conc' = [conc EXCEPT !.mu = 0, !.pc[c] = "miss"]
  /\ UNCHANGED concFrame

\* GetSOLPriceAtTime is entered: the external request is sent
FetchBegins(c) ==
  /\ conc.pc[c] = "miss"
  /\ conc' = [conc EXCEPT !.pc[c] = "fetching",
                          !.fetches[conc.minute[c]] = @ + 1]
  /\ UNCHANGED concFrame

\* GetSOLPriceAtTime returns a price or an error
FetchReturns(c) ==
  /\ conc.pc[c] = "fetching"
  /\ \E ok \in BOOLEAN :
       conc' = IF ok
               THEN [conc EXCEPT !.pc[c] = "fetched", !.px[c] = PriceAt(conc.minute[c])]
               ELSE [conc EXCEPT !.pc[c] = "done", !.ret[c] = -1]
  /\ UNCHANGED concFrame

\* c.mu.Lock() before the store
LockForStore(c) ==
  /\ conc.pc[c] = "fetched" /\ conc.mu = 0
  /\ conc' = [conc EXCEPT !.mu = c, !.pc[c] = "store"]
  /\ UNCHANGED concFrame

\* c.m[minute] = px and c.mu.Unlock()
StoreAndUnlock(c) ==
  /\ conc.pc[c] = "store" /\ conc.mu = c
  /\ conc' = [conc EXCEPT !.mu = 0, !.pc[c] = "done", !.ret[c] = conc.px[c],
                          !.m = [k \in DOMAIN conc.m \cup {conc.minute[c]} |->
                                   IF k = conc.minute[c] THEN conc.px[c] ELSE conc.m[k]]]
  /\ UNCHANGED concFrame

InitConc ==
  /\ concAlone /\ env = <<"USDC", "USDT">>
  /\ \E minute \in [Callers -> CacheMinutes], cached \in SUBSET CacheMinutes :
       conc = [pc |-> [c \in Callers |-> "enter"], mu |-> 0, minute |-> minute,
               m |-> [k \in cached |-> PriceAt(k)],
               px |-> [c \in Callers |-> 0], ret |-> [c \in Callers |-> 0],
               fetches |-> [k \in CacheMinutes |-> 0]]

NextConc ==
  \E c \in Callers :
    \/ LockForLookup(c)
    \/ LookupAndUnlock(c)
    \/ FetchBegins(c)
    \/ FetchReturns(c)
    \/ LockForStore(c)
    \/ StoreAndUnlock(c)

SpecConc == InitConc /\ [][NextConc]_vars

Fetching == {c \in Callers : conc.pc[c] = "fetching"}

\* the mutex does exclude: the map is read and written by its holder only
MutexHolderAlone ==
  \A c \in Callers : conc.pc[c] \in {"lookup", "store"} => conc.mu = c

TimeBelongsTo(t, slot) == slot \in ProbedKnown /\ probed[slot] = t

\* between two steps of the search proper: expand has returned
OutsideExpand == sc.pc \in {"loop", "after", "afterHi", "binary"}

AtFinalComparison == sc.pc = "binary" /\ ~BinaryGoesOn(sc)

\* C30: throughout SlotAtClosest an end flagged as known (tLoOK, tHiOK)
\* carries the block time a probe returned for the current slot lo, resp.
\* hi, and the two times compared by the final decision belong to the slots
\* lo and hi: no end keeps the time of another slot, or 0.
C30_EndpointTimesBelongToTheirSlots ==
  /\ OutsideExpand =>
       /\ sc.tLoOK => TimeBelongsTo(sc.tLo, sc.lo)
       /\ sc.tHiOK => TimeBelongsTo(sc.tHi, sc.hi)
  /\ AtFinalComparison =>
       /\ TimeBelongsTo(sc.tLo, sc.lo)
       /\ TimeBelongsTo(sc.tHi, sc.hi)

====
